---- MODULE Spec2Model ----
(***************************************************************************)
(* WASSERFALL: fleet dispatcher that runs one named command on many hosts  *)
(* over SSH.  Two executors share one architecture:                        *)
(*   - command_executor_postgresql (variant "sql"): one psql invocation    *)
(*     per database of every host;                                         *)
(*   - command_executor_ssh (variant "shell"): one shell command per host. *)
(* The model follows main() and process_host() of both executors, the two  *)
(* runners with their stderr classifiers, get_user_databases and           *)
(* log_execution.  Remote hosts, the configuration store and the console   *)
(* are the environment: every response they can give is an input drawn     *)
(* with \E from a small set.                                               *)
(*                                                                         *)
(* Specifications:                                                         *)
(*   Spec          the dispatcher over 0..NumHosts hosts, the environment  *)
(*                 answering from a sample of each response set;           *)
(*   SpecOneHost   the same program over one host, the environment         *)
(*                 answering from the full response sets (every psql       *)
(*                 failure class, a close() that raises);                  *)
(*   SpecClassify  the two stderr classifiers applied to every combination *)
(*                 of the texts their rules look for;                      *)
(*   SpecHostKeys  get_ssh_connection called repeatedly against one        *)
(*                 known_hosts file;                                       *)
(*   SpecPool      the dispatcher on one command, followed for its         *)
(*                 scheduling; SpecPoolFair adds weak fairness;            *)
(*   SpecRunner    the runners and the classifiers called on their own;    *)
(*   SpecLog       the workers calling log_execution on one log store.     *)
(***************************************************************************)
EXTENDS Integers, Sequences, FiniteSets, TLC

(***************************************************************************)
(* Bounds of the model.                                                    *)
(***************************************************************************)
NumHosts == 2       \* hosts in the host table, named 1..NumHosts
MaxConnections == 2 \* get_ssh_connection calls followed in SpecHostKeys
MaxLogCalls == 2    \* log_execution calls of each worker followed in SpecLog

HostIds == 1..NumHosts

\* Python's None where a string is expected.
None == "None"
\* Python's None where an exit code (an integer) is expected.
NoExit == -2

VARIABLES
    args,           \* parsed command line + state of the stores, fixed per run
    hosts,          \* main: the list `hosts`
    mainPc,         \* main: position of the main thread
    success_count,  \* main: success_count (sql) / success (shell)
    partial_count,  \* main: partial_count (sql only)
    fail_count,     \* main: fail_count (sql) / fail (shell)
    stored,         \* main (shell): keys of the dict `results`
    exit_status,    \* process exit status once main has ended
    fut,            \* state of each host's future in the pool
    pc,             \* process_host: position of each host's pipeline
    client,         \* process_host: the local `client`
    ssh_code,       \* process_host: the code get_ssh_connection returned
    databases,      \* process_host (sql): the local `databases`
    results,        \* process_host: the local `results` (shell: what run_ssh_command returned)
    ret,            \* process_host: the value returned (shell: the dict `result`)
    exc,            \* process_host: the exception propagating out of it
    logs,           \* log store: the rows written, per target host
    runs,           \* history: unit labels the runner was invoked for
    discovered,     \* history: the discovery query was sent to the host
    counted,        \* history: counters incremented for each host, in order
    printed,        \* history: status line the reporter printed per host
    environment,    \* "sampled" or "full": the response sets the environment uses
    call,           \* SpecClassify: the classifier call under way and its result
    answers,        \* history: what the environment answered for each host, in order
    known_hosts,    \* SpecHostKeys: hosts whose key is in ~/.ssh/known_hosts
    connections     \* SpecHostKeys: history of the get_ssh_connection calls

vars == <<args, hosts, mainPc, success_count, partial_count, fail_count, stored,
          exit_status, fut, pc, client, ssh_code, databases, results, ret, exc,
          logs, runs, discovered, counted, printed, environment, call,
          answers, known_hosts, connections>>

mainVars == <<mainPc, success_count, partial_count, fail_count, stored,
              exit_status, counted, printed>>
hostVars == <<pc, client, ssh_code, databases, results, ret, exc, logs, runs,
              discovered>>
callVars == <<call, known_hosts, connections>>

(***************************************************************************)
(* Text helpers: str.lower(), `needle in text`, str.strip().               *)
(***************************************************************************)
LowerChar(c) ==
    CASE c = "A" -> "a" [] c = "B" -> "b" [] c = "C" -> "c" [] c = "D" -> "d"
      [] c = "E" -> "e" [] c = "F" -> "f" [] c = "G" -> "g" [] c = "H" -> "h"
      [] c = "I" -> "i" [] c = "J" -> "j" [] c = "K" -> "k" [] c = "L" -> "l"
      [] c = "M" -> "m" [] c = "N" -> "n" [] c = "O" -> "o" [] c = "P" -> "p"
      [] c = "Q" -> "q" [] c = "R" -> "r" [] c = "S" -> "s" [] c = "T" -> "t"
      [] c = "U" -> "u" [] c = "V" -> "v" [] c = "W" -> "w" [] c = "X" -> "x"
      [] c = "Y" -> "y" [] c = "Z" -> "z" [] OTHER -> c

\* str.lower(), character by character (the text is halved at each step)
RECURSIVE Lower(_)
Lower(s) ==
    IF Len(s) = 0 THEN ""
    ELSE IF Len(s) = 1 THEN LowerChar(s)
    ELSE LET half == Len(s) \div 2 IN
         Lower(SubSeq(s, 1, half)) \o Lower(SubSeq(s, half + 1, Len(s)))

Contains(needle, text) ==
    \E i \in 1..(Len(text) - Len(needle) + 1) :
        SubSeq(text, i, i + Len(needle) - 1) = needle

IsSpace(c) == c \in {" ", "\n", "\t", "\r"}

RECURSIVE LStrip(_)
LStrip(s) ==
    IF Len(s) > 0 /\ IsSpace(SubSeq(s, 1, 1)) THEN LStrip(SubSeq(s, 2, Len(s)))
    ELSE s

RECURSIVE RStrip(_)
RStrip(s) ==
    IF Len(s) > 0 /\ IsSpace(SubSeq(s, Len(s), Len(s)))
    THEN RStrip(SubSeq(s, 1, Len(s) - 1))
    ELSE s

Strip(s) == RStrip(LStrip(s))

(***************************************************************************)
(* Error classifiers.                                                      *)
(***************************************************************************)
\* ParsePsqlError with the syntax-error rule ahead of the two `fatal` rules
ParsePsqlErrorSyntaxFirst(stderr, exit_code) ==
    LET err == Lower(stderr) IN
    IF Contains("psql: not found", err) \/ Contains("command not found", err)
    THEN "pg_10"
    ELSE IF Contains("syntax error", err) \/ Contains("error:", err)
    THEN "pg_14"
    ELSE IF Contains("fatal", err) /\ Contains("password", err)
    THEN "pg_12"
    ELSE IF Contains("fatal", err)
            /\ (Contains("could not connect", err) \/ Contains("no route", err))
    THEN "pg_16"
    ELSE IF exit_code # 0 THEN "pg_18" ELSE "pg_99"

\* ParsePsqlError looking at the exit status before the text
ParsePsqlErrorExitFirst(stderr, exit_code) ==
    LET err == Lower(stderr) IN
    IF Contains("psql: not found", err) \/ Contains("command not found", err)
    THEN "pg_10"
    ELSE IF exit_code # 0 THEN "pg_18"
    ELSE IF Contains("fatal", err) /\ Contains("password", err)
    THEN "pg_12"
    ELSE IF Contains("fatal", err)
            /\ (Contains("could not connect", err) \/ Contains("no route", err))
    THEN "pg_16"
    ELSE IF Contains("syntax error", err) \/ Contains("error:", err)
    THEN "pg_14"
    ELSE "pg_99"

\* postgres_runner._parse_psql_error
ParsePsqlError(stderr, exit_code) ==
    LET err == Lower(stderr) IN
    IF Contains("psql: not found", err) \/ Contains("command not found", err)
    THEN "pg_10"
    ELSE IF Contains("fatal", err) /\ Contains("password", err)
    THEN "pg_12"
    ELSE IF Contains("fatal", err)
            /\ (Contains("could not connect", err) \/ Contains("no route", err))
    THEN "pg_16"
    ELSE IF Contains("syntax error", err) \/ Contains("error:", err)
    THEN "pg_14"
    ELSE IF exit_code # 0 THEN "pg_18" ELSE "pg_99"

\* _classify_ssh_error coercing the no-match zero-exit case to success
ClassifySshErrorCoerces(stderr, exit_code) ==
    LET err == Lower(stderr) IN
    IF Contains("permission denied", err) THEN "cmd_12"
    ELSE IF Contains("not found", err) \/ Contains("no such file", err)
    THEN "cmd_10"
    ELSE IF Contains("timeout", err) THEN "cmd_16"
    ELSE IF Contains("sudo", err) /\ Contains("password", err) THEN "cmd_12"
    ELSE IF exit_code # 0 THEN "cmd_18"
    ELSE "cmd_0"

\* ssh_runner._classify_ssh_error
ClassifySshError(stderr, exit_code) ==
    LET err == Lower(stderr) IN
    IF Contains("permission denied", err) THEN "cmd_12"
    ELSE IF Contains("not found", err) \/ Contains("no such file", err)
    THEN "cmd_10"
    ELSE IF Contains("timeout", err) THEN "cmd_16"
    ELSE IF Contains("sudo", err) /\ Contains("password", err) THEN "cmd_12"
    ELSE IF exit_code # 0 THEN "cmd_18"
    ELSE "cmd_99"

(***************************************************************************)
(* Environment responses.  A remote invocation either cannot be dispatched *)
(* (exec_command or reading its streams raises) or yields the raw stdout,  *)
(* stderr and exit status of the remote process.                           *)
(***************************************************************************)
ExecRaised == [raises |-> TRUE, out |-> "", err |-> "", exit_code |-> NoExit]
ExecDone(out, err, code) ==
    [raises |-> FALSE, out |-> out, err |-> err, exit_code |-> code]

\* what psql can answer to one unit of the sql variant
PgExecResponses ==
    { ExecRaised,
      ExecDone("CREATE TABLE\n", "", 0),
      ExecDone("", "ERROR:  syntax error at or near \"FORM\"\n", 1) }

\* further failures of psql, one for each class of _parse_psql_error that a
\* non-zero exit can have
PgExecFailures ==
    { ExecDone("", "bash: line 1: psql: command not found\n", 127),
      ExecDone("", "psql: error: FATAL:  password authentication failed for user \"postgres\"\n", 2),
      ExecDone("", "psql: FATAL:  could not connect to server: No route to host\n", 2),
      ExecDone("", "", 3) }

\* the answers to one unit of the sql variant in the current environment
PgExecAnswers ==
    IF environment = "full" THEN PgExecResponses \cup PgExecFailures
    ELSE PgExecResponses

\* client.close() raises or not, in the current environment
CloseResponses == IF environment = "full" THEN BOOLEAN ELSE {FALSE}

\* what the remote shell can answer to the command of the shell variant
ShExecResponses ==
    { ExecRaised,
      ExecDone("up 3 days\n", "", 0),
      ExecDone("", "bash: foo: command not found\n", 127),
      ExecDone("", "", 1) }

\* what the host can answer to the discovery query
DiscoveryResponses ==
    { ExecRaised,
      ExecDone("", "psql: error: could not connect to server\n", 2),
      ExecDone("", "", 0),
      ExecDone("db1\n\n db2 \n", "", 0) }

\* what connecting to a host can give: "ok" or the text of the exception
ConnectResponses == {"ok", "timed out"}

(***************************************************************************)
(* json.loads on the stdout of psql: the decoded value, or a decode error. *)
(* Values are tagged: "list" (the text of a JSON array), "none" (None),    *)
(* "str" (a Python string).                                                *)
(***************************************************************************)
NoneData == [kind |-> "none", text |-> ""]
EmptyList == [kind |-> "list", text |-> "[]"]

JsonLoads(out) ==
    IF out = "null" THEN [ok |-> TRUE, value |-> NoneData]
    ELSE IF Len(out) >= 2 /\ SubSeq(out, 1, 1) = "[" /\ SubSeq(out, Len(out), Len(out)) = "]"
    THEN [ok |-> TRUE, value |-> [kind |-> "list", text |-> out]]
    ELSE [ok |-> FALSE, value |-> NoneData]

(***************************************************************************)
(* The two runners.  Each returns the pair (result dict, code).            *)
(***************************************************************************)
\* RunPostgresCommand treating an undecodable stdout as an error
RunPostgresCommandStrictJson(resp) ==
    IF resp.raises
    THEN [result |-> [data |-> NoneData, stderr |-> "SSH Execution Failed",
                      exit_code |-> -1],
          code |-> "ssh_99"]
    ELSE LET out == Strip(resp.out)
             err == Strip(resp.err)
             res == [data |-> NoneData, stderr |-> err, exit_code |-> resp.exit_code]
         IN  IF resp.exit_code = 0 /\ (out = "" \/ JsonLoads(out).ok)
             THEN [result |-> [res EXCEPT !.data =
                                 IF out = "" THEN EmptyList ELSE JsonLoads(out).value],
                   code |-> "pg_0"]
             ELSE [result |-> res, code |-> ParsePsqlError(err, resp.exit_code)]

\* RunPostgresCommand leaving data at None when stdout is empty
RunPostgresCommandNoRowsNull(resp) ==
    IF resp.raises
    THEN [result |-> [data |-> NoneData, stderr |-> "SSH Execution Failed",
                      exit_code |-> -1],
          code |-> "ssh_99"]
    ELSE LET out == Strip(resp.out)
             err == Strip(resp.err)
             res == [data |-> NoneData, stderr |-> err, exit_code |-> resp.exit_code]
         IN  IF resp.exit_code = 0
             THEN IF out # "" /\ JsonLoads(out).ok
                  THEN [result |-> [res EXCEPT !.data = JsonLoads(out).value],
                        code |-> "pg_0"]
                  ELSE IF out # ""
                  THEN [result |-> [res EXCEPT !.data = [kind |-> "str", text |-> out]],
                        code |-> "pg_0"]
                  ELSE [result |-> res, code |-> "pg_0"]
             ELSE [result |-> res, code |-> ParsePsqlError(err, resp.exit_code)]

\* postgres_runner.run_postgres_command_over_ssh
RunPostgresCommand(resp) ==
    IF resp.raises
    THEN [result |-> [data |-> NoneData, stderr |-> "SSH Execution Failed",
                      exit_code |-> -1],
          code |-> "ssh_99"]
    ELSE LET out == Strip(resp.out)
             err == Strip(resp.err)
             res == [data |-> NoneData, stderr |-> err, exit_code |-> resp.exit_code]
         IN  IF resp.exit_code = 0
             THEN IF out = ""
                  THEN [result |-> [res EXCEPT !.data = EmptyList], code |-> "pg_0"]
                  ELSE IF JsonLoads(out).ok
                  THEN [result |-> [res EXCEPT !.data = JsonLoads(out).value],
                        code |-> "pg_0"]
                  ELSE [result |-> [res EXCEPT !.data = [kind |-> "str", text |-> out]],
                        code |-> "pg_0"]
             ELSE [result |-> res, code |-> ParsePsqlError(err, resp.exit_code)]

\* RunSshCommand classifying the stderr also when the exit status is 0
RunSshCommandClassifyAlways(resp, command) ==
    IF resp.raises
    THEN [result |-> [command |-> command, stdout |-> "",
                      stderr |-> "exec failed", exit_code |-> -1],
          code |-> "ssh_99"]
    ELSE LET out == Strip(resp.out)
             err == Strip(resp.err)
             res == [command |-> command, stdout |-> out, stderr |-> err,
                     exit_code |-> resp.exit_code]
         IN  [result |-> res, code |-> ClassifySshError(err, resp.exit_code)]

\* ssh_runner.run_ssh_command; the sudo prefix changes only the text sent to
\* the host, whose answer is `resp`
RunSshCommand(resp, command) ==
    IF resp.raises
    THEN [result |-> [command |-> command, stdout |-> "",
                      stderr |-> "exec failed", exit_code |-> -1],
          code |-> "ssh_99"]
    ELSE LET out == Strip(resp.out)
             err == Strip(resp.err)
             res == [command |-> command, stdout |-> out, stderr |-> err,
                     exit_code |-> resp.exit_code]
         IN  IF resp.exit_code = 0
             THEN [result |-> res, code |-> "cmd_0"]
             ELSE [result |-> res, code |-> ClassifySshError(err, resp.exit_code)]

(***************************************************************************)
(* Database discovery.                                                     *)
(***************************************************************************)
RECURSIVE SplitLines(_, _)
\* str.splitlines(): `cur` is the line being read
SplitLines(s, cur) ==
    IF Len(s) = 0 THEN (IF cur = "" THEN <<>> ELSE <<cur>>)
    ELSE IF SubSeq(s, 1, 1) = "\n"
    THEN <<cur>> \o SplitLines(SubSeq(s, 2, Len(s)), "")
    ELSE SplitLines(SubSeq(s, 2, Len(s)), cur \o SubSeq(s, 1, 1))

RECURSIVE StripLines(_)
\* [db.strip() for db in lines if db.strip()]
StripLines(lines) ==
    IF lines = <<>> THEN <<>>
    ELSE IF Strip(Head(lines)) = "" THEN StripLines(Tail(lines))
    ELSE <<Strip(Head(lines))>> \o StripLines(Tail(lines))

\* getter.get_user_databases: the list, or the exception it raises
GetUserDatabases(resp) ==
    IF resp.raises THEN [raised |-> "SSHException", dbs |-> <<>>]
    ELSE LET out == Strip(resp.out)
             err == Strip(resp.err)
         IN  IF err # "" THEN [raised |-> "RuntimeError", dbs |-> <<>>]
             ELSE [raised |-> "none", dbs |-> StripLines(SplitLines(out, ""))]

\* Without removing only the first excluded name
WithoutFirstOnly(dbs, excluded) ==
    LET Keep(db) == db # excluded[1] IN SelectSeq(dbs, Keep)

\* [db for db in databases if db not in exclude_dbs]
RECURSIVE Without(_, _)
Without(dbs, excluded) ==
    IF dbs = <<>> THEN <<>>
    ELSE IF \E i \in 1..Len(excluded) : excluded[i] = Head(dbs)
    THEN Without(Tail(dbs), excluded)
    ELSE <<Head(dbs)>> \o Without(Tail(dbs), excluded)

(***************************************************************************)
(* Session.                                                                *)
(***************************************************************************)
\* GetSshConnection answering ssh_0 whatever connect() did
GetSshConnectionAlwaysOk(resp) ==
    [client |-> IF resp = "ok" THEN "open" ELSE "none", code |-> "ssh_0"]

\* common.getter.get_ssh_connection: (client, code)
GetSshConnection(resp) ==
    IF resp = "ok" THEN [client |-> "open", code |-> "ssh_0"]
    ELSE [client |-> "none", code |-> "ssh_99: " \o resp]

(***************************************************************************)
(* Command templates.  A template is its text and the variables it refers  *)
(* to; the commands table holds one row for the command name or none.      *)
(***************************************************************************)
NoRow == [found |-> FALSE, text |-> "", refs |-> {}]
TemplateRow(text, refs) == [found |-> TRUE, text |-> text, refs |-> refs]

\* the rows the commands table can hold for the command name
CommandRows ==
    { NoRow,
      TemplateRow("SELECT 1 FROM t WHERE k = {{ v }};", {"v"}),
      TemplateRow("SELECT {{ w }};", {"w"}) }

\* the --var names given on the command line
TemplateVars == {"v"}

\* common.template_engine.render_sql: the text, or a rendering error
RenderSql(template, context) ==
    IF template.refs \subseteq context
    THEN [raised |-> "none", text |-> "rendered(" \o template.text \o ")"]
    ELSE [raised |-> "TemplateError", text |-> ""]

(***************************************************************************)
(* Log store.                                                              *)
(***************************************************************************)
\* LogExecution writing a row for failures only
LogExecutionFailuresOnly(rows, target_host, query_text, result, code, database_name) ==
    IF ~args.logger_db_ok \/ code \in {"pg_0", "cmd_0"}
    THEN rows
    ELSE Append(rows,
                [target_host |-> target_host,
                 query_text |-> query_text,
                 database_name |-> database_name,
                 pg_code |-> code,
                 exit_code |-> result.exit_code,
                 stdout |-> IF "stdout" \in DOMAIN result THEN result.stdout ELSE "",
                 stderr_text |-> result.stderr])

\* common.logger.log_execution: the rows of target_host after the call
LogExecution(rows, target_host, query_text, result, code, database_name) ==
    IF ~args.logger_db_ok
    THEN rows
    ELSE Append(rows,
                [target_host |-> target_host,
                 query_text |-> query_text,
                 database_name |-> database_name,
                 pg_code |-> code,
                 exit_code |-> result.exit_code,
                 stdout |-> IF "stdout" \in DOMAIN result THEN result.stdout ELSE "",
                 stderr_text |-> result.stderr])

(***************************************************************************)
(* Initial state: the command line has been parsed, the host list is       *)
(* fetched, nothing is submitted yet.                                      *)
(***************************************************************************)
\* the --db and --db-exclude lists tried (<<>> is "option not given")
\* the --workers values tried
WorkerArgs == {1, 2}
DbArgs == { <<>>, <<"db1", "db2">> }
DbExcludeArgs == { <<>>, <<"db2">>, <<"db1", "db2">> }

ArgSets ==
    { [variant |-> "sql", cmd |-> "cmd", workers |-> w, row |-> r,
       logger_db_ok |-> l, db |-> d, db_exclude |-> x,
       dry_run |-> FALSE, verbose |-> FALSE] :
        w \in WorkerArgs, r \in CommandRows, l \in BOOLEAN,
        d \in DbArgs, x \in DbExcludeArgs }
    \cup
    { [variant |-> "shell", cmd |-> "cmd", workers |-> w, row |-> r,
       logger_db_ok |-> l, db |-> <<>>, db_exclude |-> <<>>,
       dry_run |-> y, verbose |-> v] :
        w \in WorkerArgs, r \in CommandRows, l \in BOOLEAN,
        y \in BOOLEAN, v \in BOOLEAN }

\* process_host (sql): the dict of an early failure return; it has no
\* "results" key, which result.get("results") reads as None (falsy, as [])
PgFailure(host, code, pg_code, error) ==
    [host |-> host, ssh_code |-> code, pg_code |-> pg_code, error |-> error,
     results |-> <<>>, success |-> FALSE]

\* process_host (shell): the dict `result` as first built
ShInitial(host) ==
    [host |-> host, success |-> FALSE, error |-> None, cmd_code |-> None,
     exit_code |-> NoExit, stdout |-> "", stderr |-> ""]

\* no classifier call under way
NoCall == [fn |-> None, marks |-> {}, stderr |-> "", exit_code |-> NoExit,
           code |-> None]

\* main has not submitted anything, no pipeline has started
Idle ==
    /\ mainPc = "start"
    /\ success_count = 0
    /\ partial_count = 0
    /\ fail_count = 0
    /\ stored = {}
    /\ exit_status = NoExit
    /\ fut = [h \in HostIds |-> "none"]
    /\ pc = [h \in HostIds |-> "idle"]
    /\ client = [h \in HostIds |-> "none"]
    /\ ssh_code = [h \in HostIds |-> None]
    /\ databases = [h \in HostIds |-> <<>>]
    /\ results = [h \in HostIds |-> <<>>]
    /\ ret = [h \in HostIds |->
                IF args.variant = "sql" THEN PgFailure(h, None, None, None)
                ELSE ShInitial(h)]
    /\ exc = [h \in HostIds |-> "none"]
    /\ logs = [h \in HostIds |-> <<>>]
    /\ runs = [h \in HostIds |-> <<>>]
    /\ discovered = [h \in HostIds |-> FALSE]
    /\ counted = [h \in HostIds |-> <<>>]
    /\ printed = [h \in HostIds |-> <<>>]
    /\ answers = [h \in HostIds |-> <<>>]

Init ==
    /\ args \in ArgSets
    /\ \E n \in 0..NumHosts : hosts = [i \in 1..n |-> i]
    /\ environment = "sampled"
    /\ Idle
    /\ call = NoCall
    /\ known_hosts = {}
    /\ connections = <<>>

\* one host in the host table (or --host given), the full environment
InitOneHost ==
    /\ args \in ArgSets
    /\ hosts = <<1>>
    /\ environment = "full"
    /\ Idle
    /\ call = NoCall
    /\ known_hosts = {}
    /\ connections = <<>>

HostSet == {hosts[i] : i \in 1..Len(hosts)}

(***************************************************************************)
(* Worker pool (ThreadPoolExecutor): tasks are taken from the work queue   *)
(* in submission order by at most args.workers threads.                    *)
(***************************************************************************)
Running == {h \in HostSet : fut[h] = "running"}

FirstPending(h) ==
    \E i \in 1..Len(hosts) :
        /\ hosts[i] = h
        /\ fut[h] = "pending"
        /\ \A j \in 1..(i - 1) : fut[hosts[j]] # "pending"

\* WorkerStart without the limit of max_workers
WorkerStartUnbounded(h) ==
    /\ FirstPending(h)
    /\ fut' = [fut EXCEPT ![h] = "running"]
    /\ pc' = [pc EXCEPT ![h] = "config"]
    /\ UNCHANGED <<args, hosts, environment, callVars, answers, mainVars, client,
                   ssh_code, databases, results, ret, exc, logs, runs, discovered>>

WorkerStart(h) ==
    /\ FirstPending(h)
    /\ Cardinality(Running) < args.workers
    /\ fut' = [fut EXCEPT ![h] = "running"]
    /\ pc' = [pc EXCEPT ![h] = "config"]
    /\ UNCHANGED <<args, hosts, environment, callVars, answers, mainVars, client, ssh_code, databases, results,
                   ret, exc, logs, runs, discovered>>

(***************************************************************************)
(* process_host of command_executor_postgresql, step by step.              *)
(***************************************************************************)
\* the environment answered `resp` to the step `ask` of host h
Answered(h, ask, resp) ==
    answers' = [answers EXCEPT ![h] = Append(@, [ask |-> ask, resp |-> resp])]

\* the pipeline leaves the try block with a return value
Return(h, value) ==
    /\ ret' = [ret EXCEPT ![h] = value]
    /\ pc' = [pc EXCEPT ![h] = "finally"]
    /\ exc' = exc

\* the pipeline leaves the try block with an exception
Raise(h, e) ==
    /\ exc' = [exc EXCEPT ![h] = e]
    /\ pc' = [pc EXCEPT ![h] = "finally"]
    /\ ret' = ret

ErrorResult(msg) == [data |-> NoneData, stderr |-> msg, exit_code |-> -1]

\* get_config_for_host and its except branch
PgConfig(h) ==
    /\ args.variant = "sql"
    /\ pc[h] = "config"
    /\ \E found \in BOOLEAN :
        /\ Answered(h, "config", found)
        /\ IF found
           THEN /\ pc' = [pc EXCEPT ![h] = "connect"]
                /\ UNCHANGED <<ret, exc, logs>>
           ELSE LET error_msg == "CONFIG_ERROR: Host not found or disabled" IN
                /\ logs' = [logs EXCEPT ![h] =
                       LogExecution(@, h, "CONFIG_ERROR: " \o args.cmd,
                                    ErrorResult(error_msg), "ssh_99", None)]
                /\ Return(h, PgFailure(h, "ssh_99", None, error_msg))
    /\ UNCHANGED <<args, hosts, environment, callVars, mainVars, fut, client, ssh_code, databases,
                   results, runs, discovered>>

\* get_ssh_connection and the `ssh_code != "ssh_0"` branch
PgConnect(h) ==
    /\ args.variant = "sql"
    /\ pc[h] = "connect"
    /\ \E resp \in ConnectResponses :
        LET conn == GetSshConnection(resp) IN
        /\ Answered(h, "connect", resp)
        /\ client' = [client EXCEPT ![h] = conn.client]
        /\ ssh_code' = [ssh_code EXCEPT ![h] = conn.code]
        /\ IF conn.code # "ssh_0"
           THEN LET error_msg == "SSH Connection Failed: " \o conn.code IN
                /\ logs' = [logs EXCEPT ![h] =
                       LogExecution(@, h, "SSH_ERROR: " \o args.cmd,
                                    ErrorResult(error_msg), conn.code, None)]
                /\ Return(h, PgFailure(h, conn.code, None, error_msg))
           ELSE /\ pc' = [pc EXCEPT ![h] = "resolve"]
                /\ UNCHANGED <<ret, exc, logs>>
    /\ UNCHANGED <<args, hosts, environment, callVars, mainVars, fut, databases, results, runs,
                   discovered>>

\* the list of databases: --db or discovery, minus --db-exclude
PgResolve(h) ==
    /\ args.variant = "sql"
    /\ pc[h] = "resolve"
    /\ \E resp \in DiscoveryResponses :
        LET explicit == args.db # <<>>
            found == IF explicit THEN [raised |-> "none", dbs |-> args.db]
                     ELSE GetUserDatabases(resp)
            dbs == IF args.db_exclude # <<>> /\ found.dbs # <<>>
                   THEN Without(found.dbs, args.db_exclude)
                   ELSE found.dbs
        IN
        /\ IF explicit THEN answers' = answers ELSE Answered(h, "discovery", resp)
        /\ discovered' = [discovered EXCEPT ![h] = ~explicit]
        /\ IF found.raised # "none"
           THEN /\ Raise(h, found.raised)
                /\ UNCHANGED <<databases, logs>>
           ELSE /\ databases' = [databases EXCEPT ![h] = dbs]
                /\ IF dbs = <<>>
                   THEN LET error_msg == "No databases to process" IN
                        /\ logs' = [logs EXCEPT ![h] =
                               LogExecution(@, h, "DB_LIST_ERROR: " \o args.cmd,
                                            ErrorResult(error_msg), "pg_99", None)]
                        /\ Return(h, PgFailure(h, "ssh_0", "pg_99", error_msg))
                   ELSE /\ pc' = [pc EXCEPT ![h] = "render"]
                        /\ UNCHANGED <<ret, exc, logs>>
    /\ UNCHANGED <<args, hosts, environment, callVars, mainVars, fut, client, ssh_code, results, runs>>

\* getter.get_sql_template: the template text, or ValueError
GetSqlTemplate(row) ==
    IF row.found THEN [raised |-> "none", template |-> row]
    ELSE [raised |-> "ValueError", template |-> row]

\* get_sql_template + render_sql, as process_host (sql) calls them
RenderedSql ==
    IF GetSqlTemplate(args.row).raised # "none"
    THEN [raised |-> GetSqlTemplate(args.row).raised, text |-> ""]
    ELSE RenderSql(GetSqlTemplate(args.row).template, TemplateVars)

\* PgRender going on to the units although the template did not render
PgRenderIgnoresError(h) ==
    /\ args.variant = "sql"
    /\ pc[h] = "render"
    /\ pc' = [pc EXCEPT ![h] = "loop"]
    /\ UNCHANGED <<ret, exc, logs>>
    /\ UNCHANGED <<args, hosts, environment, callVars, answers, mainVars, fut, client, ssh_code, databases,
                   results, runs, discovered>>

\* the template try block and its except branch
PgRender(h) ==
    /\ args.variant = "sql"
    /\ pc[h] = "render"
    /\ IF RenderedSql.raised # "none"
       THEN LET error_msg == "Template Error: " \o RenderedSql.raised IN
            /\ logs' = [logs EXCEPT ![h] =
                   LogExecution(@, h, "TEMPLATE_ERROR: " \o args.cmd,
                                ErrorResult(error_msg), "pg_99", None)]
            /\ Return(h, PgFailure(h, "ssh_0", "pg_99", error_msg))
       ELSE /\ pc' = [pc EXCEPT ![h] = "loop"]
            /\ UNCHANGED <<ret, exc, logs>>
    /\ UNCHANGED <<args, hosts, environment, callVars, answers, mainVars, fut, client, ssh_code, databases,
                   results, runs, discovered>>

\* the entry of `results` for one database
UnitResult(db_name, result, pg_code) ==
    [database |-> db_name, pg_code |-> pg_code, exit_code |-> result.exit_code,
     success |-> (pg_code = "pg_0"), data |-> result.data]

\* NextDb going back to the first database
NextDbFirst(h) == databases[h][1]

\* the database the for loop visits next, given what it has appended so far
NextDb(h) == databases[h][Len(results[h]) + 1]

\* one iteration of `for db_name in databases`
PgRunUnit(h) ==
    /\ args.variant = "sql"
    /\ pc[h] = "loop"
    /\ Len(results[h]) < Len(databases[h])
    /\ \E resp \in PgExecAnswers :
        LET db_name == NextDb(h)
            run == RunPostgresCommand(resp)
        IN
        /\ Answered(h, "unit", resp)
        /\ runs' = [runs EXCEPT ![h] = Append(@, db_name)]
        /\ logs' = [logs EXCEPT ![h] =
               LogExecution(@, h, RenderedSql.text, run.result, run.code, db_name)]
        /\ results' = [results EXCEPT ![h] =
               Append(@, UnitResult(db_name, run.result, run.code))]
    /\ UNCHANGED <<args, hosts, environment, callVars, mainVars, fut, pc, client, ssh_code, databases,
                   ret, exc, discovered>>

\* AllSuccess with any() in place of all()
AllSuccessAny(rs) ==
    IF rs # <<>> THEN \E i \in 1..Len(rs) : rs[i].success ELSE FALSE

\* all(r["success"] for r in results) if results else False
AllSuccess(rs) ==
    IF rs # <<>> THEN \A i \in 1..Len(rs) : rs[i].success ELSE FALSE

\* PgOutcome over a results list that the worker threads share
PgOutcomeSharedResults(h, rs) ==
    LET others == {g \in HostIds \ {h} : Len(results[g]) > 0}
        shared == IF others = {} THEN rs
                  ELSE rs \o results[CHOOSE g \in others : TRUE]
    IN  [host |-> h, ssh_code |-> "ssh_0", pg_code |-> None, error |-> None,
         results |-> shared, success |-> AllSuccess(shared)]

\* the dict returned after the loop
PgOutcome(h, rs) ==
    [host |-> h, ssh_code |-> "ssh_0", pg_code |-> None, error |-> None,
     results |-> rs, success |-> AllSuccess(rs)]

\* PgSynthesize leaving the loop at the first unit that did not succeed
PgSynthesizeOnFailure(h) ==
    /\ args.variant = "sql"
    /\ pc[h] = "loop"
    /\ \/ Len(results[h]) = Len(databases[h])
       \/ results[h] # <<>> /\ ~results[h][Len(results[h])].success
    /\ Return(h, PgOutcome(h, results[h]))
    /\ UNCHANGED <<args, hosts, environment, callVars, answers, mainVars, fut, client,
                   ssh_code, databases, results, logs, runs, discovered>>

\* the loop is exhausted: build and return the outcome
PgSynthesize(h) ==
    /\ args.variant = "sql"
    /\ pc[h] = "loop"
    /\ Len(results[h]) = Len(databases[h])
    /\ Return(h, PgOutcome(h, results[h]))
    /\ UNCHANGED <<args, hosts, environment, callVars, answers, mainVars, fut, client, ssh_code, databases,
                   results, logs, runs, discovered>>

\* AfterClose without the try/except around client.close()
AfterCloseUnguarded(e, close_raises) ==
    IF close_raises THEN "CloseError" ELSE e

\* `try: client.close() except: pass`: the exception propagating after the
\* finally block, given the one that entered it ("none": a return is pending)
AfterClose(e, close_raises) == e

\* Finally closing the client after the try block, not in a finally block
FinallyOnReturnOnly(h) ==
    /\ pc[h] = "finally"
    /\ client' = [client EXCEPT ![h] =
           IF @ = "open" /\ exc[h] = "none" THEN "closed" ELSE @]
    /\ pc' = [pc EXCEPT ![h] = IF exc[h] = "none" THEN "returned" ELSE "raised"]
    /\ fut' = [fut EXCEPT ![h] = "done"]
    /\ UNCHANGED <<args, hosts, environment, callVars, answers, mainVars, ssh_code,
                   databases, results, ret, exc, logs, runs, discovered>>

\* the finally block of process_host (both variants): close the client if
\* there is one, then complete the future with the return value or the
\* exception
Finally(h) ==
    /\ pc[h] = "finally"
    /\ \E close_raises \in (IF client[h] = "open" THEN CloseResponses ELSE {FALSE}) :
        /\ IF client[h] = "open" THEN Answered(h, "close", close_raises)
           ELSE answers' = answers
        /\ client' = [client EXCEPT ![h] =
               IF @ # "open" THEN @
               ELSE IF close_raises THEN "close_raised" ELSE "closed"]
        /\ exc' = [exc EXCEPT ![h] = AfterClose(@, close_raises)]
        /\ pc' = [pc EXCEPT ![h] =
               IF AfterClose(exc[h], close_raises) = "none" THEN "returned"
               ELSE "raised"]
    /\ fut' = [fut EXCEPT ![h] = "done"]
    /\ UNCHANGED <<args, hosts, environment, callVars, mainVars, ssh_code,
                   databases, results, ret, logs, runs, discovered>>

(***************************************************************************)
(* process_host of command_executor_ssh, step by step.  It has no except   *)
(* clause: what get_config_for_host or render_sql raise leaves it.         *)
(***************************************************************************)
\* main (shell): the template of the command, or the command itself when the
\* commands table has no row for it
ShCommandTemplate ==
    IF args.row.found THEN args.row ELSE TemplateRow(args.cmd, {})

\* render_sql(command_template, template_vars)
RenderedCommand == RenderSql(ShCommandTemplate, TemplateVars)

\* get_config_for_host
ShConfig(h) ==
    /\ args.variant = "shell"
    /\ pc[h] = "config"
    /\ \E found \in BOOLEAN :
        /\ Answered(h, "config", found)
        /\ IF found
           THEN /\ pc' = [pc EXCEPT ![h] = "render"]
                /\ UNCHANGED <<ret, exc>>
           ELSE Raise(h, "ValueError")
    /\ UNCHANGED <<args, hosts, environment, callVars, mainVars, fut, client, ssh_code, databases,
                   results, logs, runs, discovered>>

\* ShRender not looking at dry_run
ShRenderNoDryRun(h) ==
    /\ args.variant = "shell"
    /\ pc[h] = "render"
    /\ IF RenderedCommand.raised # "none"
       THEN Raise(h, RenderedCommand.raised)
       ELSE /\ pc' = [pc EXCEPT ![h] = "connect"]
            /\ UNCHANGED <<ret, exc>>
    /\ UNCHANGED <<args, hosts, environment, callVars, answers, mainVars, fut, client, ssh_code, databases,
                   results, logs, runs, discovered>>

\* render_sql and the dry-run return
ShRender(h) ==
    /\ args.variant = "shell"
    /\ pc[h] = "render"
    /\ IF RenderedCommand.raised # "none"
       THEN Raise(h, RenderedCommand.raised)
       ELSE IF args.dry_run
       THEN Return(h, [ret[h] EXCEPT !.success = TRUE, !.cmd_code = "cmd_0",
                                     !.stdout = "[DRY-RUN] " \o RenderedCommand.text])
       ELSE /\ pc' = [pc EXCEPT ![h] = "connect"]
            /\ UNCHANGED <<ret, exc>>
    /\ UNCHANGED <<args, hosts, environment, callVars, answers, mainVars, fut, client, ssh_code, databases,
                   results, logs, runs, discovered>>

\* get_ssh_connection and the `ssh_code != "ssh_0"` branch
ShConnect(h) ==
    /\ args.variant = "shell"
    /\ pc[h] = "connect"
    /\ \E resp \in ConnectResponses :
        LET conn == GetSshConnection(resp) IN
        /\ Answered(h, "connect", resp)
        /\ client' = [client EXCEPT ![h] = conn.client]
        /\ ssh_code' = [ssh_code EXCEPT ![h] = conn.code]
        /\ IF conn.code # "ssh_0"
           THEN /\ logs' = [logs EXCEPT ![h] =
                       LogExecution(@, h, RenderedCommand.text,
                                    [stdout |-> "", stderr |-> conn.code,
                                     exit_code |-> -1],
                                    conn.code, None)]
                /\ Return(h, [ret[h] EXCEPT !.error = "SSH error: " \o conn.code,
                                              !.cmd_code = conn.code,
                                              !.exit_code = -1])
           ELSE /\ pc' = [pc EXCEPT ![h] = "run"]
                /\ UNCHANGED <<ret, exc, logs>>
    /\ UNCHANGED <<args, hosts, environment, callVars, mainVars, fut, databases, results, runs,
                   discovered>>

\* the dict `result` after run_ssh_command
ShOutcome(result, cmd_result, cmd_code) ==
    [result EXCEPT !.cmd_code = cmd_code,
                   !.exit_code = cmd_result.exit_code,
                   !.stdout = cmd_result.stdout,
                   !.stderr = cmd_result.stderr,
                   !.success = (cmd_code = "cmd_0")]

\* run_ssh_command, the result fields, the log record
ShRunUnit(h) ==
    /\ args.variant = "shell"
    /\ pc[h] = "run"
    /\ \E resp \in ShExecResponses :
        LET run == RunSshCommand(resp, RenderedCommand.text) IN
        /\ Answered(h, "unit", resp)
        /\ runs' = [runs EXCEPT ![h] = Append(@, "-")]
        /\ results' = [results EXCEPT ![h] = Append(@, run)]
        /\ logs' = [logs EXCEPT ![h] =
               LogExecution(@, h, RenderedCommand.text, run.result, run.code, None)]
        /\ Return(h, ShOutcome(ret[h], run.result, run.code))
    /\ UNCHANGED <<args, hosts, environment, callVars, mainVars, fut, client, ssh_code, databases,
                   discovered>>

(***************************************************************************)
(* main of both executors.                                                 *)
(***************************************************************************)
\* the `if not hosts` return, else the submission of one task per host
Submit ==
    /\ mainPc = "start"
    /\ IF hosts = <<>>
       THEN /\ mainPc' = "done"
            /\ exit_status' = IF args.variant = "sql" THEN 0 ELSE 1
            /\ fut' = fut
       ELSE /\ mainPc' = "collect"
            /\ fut' = [h \in HostIds |-> IF h \in HostSet THEN "pending" ELSE "none"]
            /\ exit_status' = exit_status
    /\ UNCHANGED <<args, hosts, environment, callVars, answers, success_count, partial_count, fail_count, stored,
                   counted, printed, hostVars>>

\* PrintPgResult reporting FAIL when no unit succeeded
PrintPgResultNoneIsFail(result) ==
    IF result.ssh_code # "ssh_0" THEN "FAIL"
    ELSE IF result.results = <<>> THEN "FAIL"
    ELSE IF result.success THEN "OK"
    ELSE IF \E i \in 1..Len(result.results) : result.results[i].success THEN "PARTIAL"
    ELSE "FAIL"

\* print_pg_result: the status of the line it prints
PrintPgResult(result) ==
    IF result.ssh_code # "ssh_0" THEN "FAIL"
    ELSE IF result.results = <<>> THEN "FAIL"
    ELSE IF result.success THEN "OK"
    ELSE "PARTIAL"

\* PgBucket without the test on "results"
PgBucketNoResultsTest(result) ==
    IF result.success THEN "success" ELSE "partial"

\* main (sql): the counter chosen for a returned result
PgBucket(result) ==
    IF result.success THEN "success"
    ELSE IF result.results # <<>> THEN "partial"
    ELSE "fail"

\* print_result: STATUS_MAP.get(code, "UNKNOWN")
PrintResult(result) ==
    IF result.cmd_code \in {"cmd_0", "ssh_0"} THEN "OK"
    ELSE IF result.cmd_code = "ssh_99" THEN "UNREACHABLE"
    ELSE IF result.cmd_code \in {"cmd_10", "cmd_12", "cmd_16", "cmd_18"} THEN "FAILED"
    ELSE "UNKNOWN"

\* main (shell): the counter chosen for a returned result
ShBucket(result) == IF result.success THEN "success" ELSE "fail"

\* Count losing the increment when another future is complete at the moment
\* of the update (two writers reading the counter at the same time)
CountLostUpdate(h, buckets) ==
    LET n(b) == Cardinality({i \in 1..Len(buckets) : buckets[i] = b})
        lost == \E g \in HostIds : g # h /\ fut[g] = "done"
    IN
    /\ success_count' = IF lost THEN success_count ELSE success_count + n("success")
    /\ partial_count' = IF lost THEN partial_count ELSE partial_count + n("partial")
    /\ fail_count' = IF lost THEN fail_count ELSE fail_count + n("fail")
    /\ counted' = [counted EXCEPT ![h] = @ \o buckets]

\* `<counter> += 1` for each bucket of the list, in order
Count(h, buckets) ==
    LET n(b) == Cardinality({i \in 1..Len(buckets) : buckets[i] = b}) IN
    /\ success_count' = success_count + n("success")
    /\ partial_count' = partial_count + n("partial")
    /\ fail_count' = fail_count + n("fail")
    /\ counted' = [counted EXCEPT ![h] = @ \o buckets]

\* PgBuckets with an except branch that only prints
PgBucketsExceptPrintsOnly(raised, reporter_raises, result) ==
    IF raised \/ reporter_raises THEN <<>>
    ELSE <<PgBucket(result)>>

\* main (sql), body of the as_completed loop: the counters incremented for a
\* future that raised or returned `result`, the reporter raising or not
PgBuckets(raised, reporter_raises, result) ==
    IF raised \/ reporter_raises THEN <<"fail">>
    ELSE <<PgBucket(result)>>

\* main (shell), body of the as_completed loop: the counter is incremented
\* before print_result is called, and the except branch increments `fail`
ShBuckets(raised, reporter_raises, result) ==
    IF raised THEN <<"fail">>
    ELSE IF reporter_raises THEN <<ShBucket(result), "fail">>
    ELSE <<ShBucket(result)>>

\* one iteration of `for future in as_completed(futures)` in main (sql)
PgConsume(h) ==
    /\ args.variant = "sql"
    /\ mainPc = "collect"
    /\ fut[h] = "done"
    /\ \E reporter_raises \in BOOLEAN :
        /\ IF pc[h] = "raised" THEN answers' = answers
           ELSE Answered(h, "report", reporter_raises)
        /\ printed' = [printed EXCEPT ![h] =
               IF pc[h] = "raised" \/ reporter_raises THEN <<"ERROR">>
               ELSE <<PrintPgResult(ret[h])>>]
        /\ Count(h, PgBuckets(pc[h] = "raised", reporter_raises, ret[h]))
    /\ fut' = [fut EXCEPT ![h] = "consumed"]
    /\ UNCHANGED <<args, hosts, environment, callVars, mainPc, stored, exit_status, hostVars>>

\* one iteration of `for future in as_completed(futures)` in main (shell)
ShConsume(h) ==
    /\ args.variant = "shell"
    /\ mainPc = "collect"
    /\ fut[h] = "done"
    /\ \E reporter_raises \in BOOLEAN :
        /\ IF pc[h] = "raised" THEN answers' = answers
           ELSE Answered(h, "report", reporter_raises)
        /\ printed' = [printed EXCEPT ![h] =
               IF pc[h] = "raised" \/ reporter_raises THEN <<"exception">>
               ELSE <<PrintResult(ret[h])>>]
        /\ Count(h, ShBuckets(pc[h] = "raised", reporter_raises, ret[h]))
    /\ stored' = IF pc[h] = "raised" THEN stored ELSE stored \cup {h}
    /\ fut' = [fut EXCEPT ![h] = "consumed"]
    /\ UNCHANGED <<args, hosts, environment, callVars, mainPc, exit_status, hostVars>>

\* Finish not waiting for the futures still to be consumed
FinishEarly ==
    /\ mainPc = "collect"
    /\ IF args.variant = "sql"
       THEN /\ mainPc' = "done"
            /\ exit_status' = 0
       ELSE IF Len(hosts) = 1 /\ ~args.verbose /\ hosts[1] \notin stored
       THEN /\ mainPc' = "crashed"
            /\ exit_status' = 1
       ELSE /\ mainPc' = "done"
            /\ exit_status' = IF fail_count = 0 THEN 0 ELSE 1
    /\ UNCHANGED <<args, hosts, environment, callVars, answers, success_count, partial_count, fail_count, stored,
                   fut, counted, printed, hostVars>>

\* after the loop: the tally and the end of main
Finish ==
    /\ mainPc = "collect"
    /\ \A h \in HostSet : fut[h] = "consumed"
    /\ IF args.variant = "sql"
       THEN /\ mainPc' = "done"
            /\ exit_status' = 0
       ELSE IF Len(hosts) = 1 /\ ~args.verbose /\ hosts[1] \notin stored
       THEN /\ mainPc' = "crashed"
            /\ exit_status' = 1
       ELSE /\ mainPc' = "done"
            /\ exit_status' = IF fail_count = 0 THEN 0 ELSE 1
    /\ UNCHANGED <<args, hosts, environment, callVars, answers, success_count, partial_count, fail_count, stored,
                   fut, counted, printed, hostVars>>

Next ==
    \/ Submit
    \/ Finish
    \/ \E h \in HostIds :
        \/ WorkerStart(h)
        \/ PgConfig(h)
        \/ PgConnect(h)
        \/ PgResolve(h)
        \/ PgRender(h)
        \/ PgRunUnit(h)
        \/ PgSynthesize(h)
        \/ ShConfig(h)
        \/ ShRender(h)
        \/ ShConnect(h)
        \/ ShRunUnit(h)
        \/ Finally(h)
        \/ PgConsume(h)
        \/ ShConsume(h)

Spec == Init /\ [][Next]_vars

SpecOneHost == InitOneHost /\ [][Next]_vars

(***************************************************************************)
(* Properties.                                                             *)
(***************************************************************************)
\* the command lines of SpecPool: a command whose template renders, the
\* logger database available, databases by discovery, no dry run
PoolArgSets ==
    {a \in ArgSets : /\ a.row = TemplateRow("SELECT 1 FROM t WHERE k = {{ v }};", {"v"})
                     /\ a.logger_db_ok
                     /\ a.db = <<>>
                     /\ a.db_exclude = <<>>
                     /\ ~a.dry_run}

InitPool ==
    /\ args \in PoolArgSets
    /\ \E n \in 0..NumHosts : hosts = [i \in 1..n |-> i]
    /\ environment = "sampled"
    /\ Idle
    /\ call = NoCall
    /\ known_hosts = {}
    /\ connections = <<>>

\* the dispatcher and its pool on the command lines of PoolArgSets
SpecPool == InitPool /\ [][Next]_vars

\* SpecPool with every thread that can take a step eventually taking one
SpecPoolFair == SpecPool /\ WF_vars(Next)

IsSql == args.variant = "sql"
Returned(h) == pc[h] = "returned"
Consumed(h) == fut[h] = "consumed"

\* the transport code, the units and their success as the outcome of h has them
TransportCode(h) == IF IsSql THEN ret[h].ssh_code ELSE ssh_code[h]
UnitsOf(h) == IF IsSql THEN ret[h].results ELSE results[h]
UnitSucceeded(u) == IF IsSql THEN u.success ELSE u.code = "cmd_0"
SuccessfulUnits(rs) == Cardinality({i \in 1..Len(rs) : rs[i].success})

OutcomeRule(h) ==
    ret[h].success <=>
        /\ TransportCode(h) = "ssh_0"
        /\ UnitsOf(h) # <<>>
        /\ \A i \in 1..Len(UnitsOf(h)) : UnitSucceeded(UnitsOf(h)[i])

\* C1 as stated: every outcome process_host returns, in either variant, is
\* successful iff the transport code is ssh_0, there is at least one unit
\* result and every unit succeeded.
C1_SuccessIffAllUnits ==
    \A h \in HostIds : Returned(h) => OutcomeRule(h)

\* C1 amended: the rule holds for every returned outcome except those of a
\* dry run of the shell variant, which are successful with code cmd_0 although
\* no session was opened and no unit was executed.
C1_SuccessIffAllUnitsOrDryRun ==
    \A h \in HostIds :
        Returned(h) =>
            IF ~IsSql /\ args.dry_run
            THEN /\ ret[h].success
                 /\ ret[h].cmd_code = "cmd_0"
                 /\ UnitsOf(h) = <<>>
                 /\ ssh_code[h] = None
            ELSE OutcomeRule(h)

C1_Witness ==
    \E h \in HostIds :
        /\ IsSql
        /\ Returned(h)
        /\ ret[h].success
        /\ Len(ret[h].results) = 2

\* C2 as stated: once the dispatch loop has ended, every host has incremented
\* exactly one counter exactly once and the three counters add up to the
\* number of hosts, also when the pipeline or the reporter raised for a host.
C2_OneCounterPerHost ==
    mainPc \in {"done", "crashed"} =>
        /\ \A h \in HostSet : Len(counted[h]) = 1
        /\ success_count + partial_count + fail_count = Len(hosts)

\* the hosts C3 is about: sql hosts with a non-empty resolved database set
\* whose outcome was returned, reported and counted
C3_Case(h) ==
    /\ IsSql
    /\ Consumed(h)
    /\ Returned(h)
    /\ databases[h] # <<>>
    /\ printed[h] # <<"ERROR">>

EmptyTargetSet(h) ==
    /\ IsSql
    /\ pc[h] \in {"finally", "returned"}
    /\ exc[h] = "none"
    /\ ssh_code[h] = "ssh_0"
    /\ databases[h] = <<>>

\* C4: when the database set is empty after exclusion, the outcome is a
\* failure without unit results, no runner was invoked, and the dispatcher
\* counts the host as fail, never as success or partial.
C4_EmptySetIsFailure ==
    \A h \in HostIds :
        EmptyTargetSet(h) =>
            /\ ret[h].results = <<>>
            /\ ~ret[h].success
            /\ ret[h].pg_code = "pg_99"
            /\ runs[h] = <<>>
            /\ pc[h] = "returned" => fut[h] \in {"done", "consumed"}
            /\ Consumed(h) => counted[h] = <<"fail">>

C4_Witness ==
    \E h \in HostIds :
        /\ EmptyTargetSet(h)
        /\ discovered[h]
        /\ args.db_exclude = <<"db1", "db2">>
        /\ Consumed(h)
        /\ printed[h] = <<"FAIL">>

\* C5: a unit is marked succeeded iff its code is the success code of its
\* kind (pg_0, cmd_0); a zero-exit sql invocation is a success whatever its
\* stdout, and a unit with any other code is not a success.
C5_SucceededIffSuccessCode ==
    \A h \in HostIds :
        IF IsSql
        THEN \A i \in 1..Len(results[h]) :
                LET r == results[h][i] IN
                /\ r.success <=> (r.pg_code = "pg_0")
                /\ r.exit_code = 0 => r.success
                /\ r.pg_code \in {"pg_10", "pg_12", "pg_14", "pg_16", "pg_18",
                                  "pg_99", "ssh_99"} => ~r.success
        ELSE /\ Returned(h) => (ret[h].success <=> (ret[h].cmd_code = "cmd_0"))
             /\ \A i \in 1..Len(results[h]) :
                    (results[h][i].result.exit_code = 0) <=> (results[h][i].code = "cmd_0")

C5_Witness ==
    \E h \in HostIds :
        /\ IsSql
        /\ Len(results[h]) = 2
        /\ results[h][1].data.kind = "str"
        /\ results[h][1].success
        /\ results[h][2].pg_code = "ssh_99"
        /\ ~results[h][2].success

Terminated(h) == pc[h] \in {"returned", "raised"}
MainEnded == mainPc \in {"done", "crashed"}
ActivePcs == {"config", "connect", "resolve", "render", "loop", "run", "finally"}

\* the counters a returned outcome is due when its report does not raise
DueBuckets(h) == IF IsSql THEN <<PgBucket(ret[h])>> ELSE <<ShBucket(ret[h])>>

\* C6: a host whose pipeline raised is counted as fail; the other hosts still
\* run to the end, are consumed and are counted by their own outcome; the
\* pool never stalls while work is left.
C6_ExceptionIsolated ==
    /\ \A h \in HostIds :
        /\ (Consumed(h) /\ pc[h] = "raised") => counted[h] = <<"fail">>
        /\ (Consumed(h) /\ Returned(h) /\ printed[h] \notin {<<"ERROR">>, <<"exception">>})
               => counted[h] = DueBuckets(h)
        /\ fut[h] = "running" => pc[h] \in ActivePcs
        /\ Terminated(h) => fut[h] \in {"done", "consumed"}
    /\ (MainEnded /\ hosts # <<>>) =>
           \A h \in HostSet : Terminated(h) /\ Consumed(h) /\ counted[h] # <<>>
    /\ mainPc = "collect" =>
           \/ \A h \in HostSet : Consumed(h)
           \/ \E h \in HostSet : fut[h] \in {"running", "done"}
           \/ \E h \in HostSet : FirstPending(h) /\ Cardinality(Running) < args.workers

C6_Witness ==
    /\ mainPc = "done"
    /\ \E g, h \in HostSet :
        /\ pc[g] = "raised"
        /\ counted[g] = <<"fail">>
        /\ Returned(h)
        /\ ret[h].success
        /\ counted[h] = <<"success">>

\* C7 as stated: a pipeline that ends in a failure before any unit is executed
\* has appended exactly one log record for its host (the log store being
\* available).
C7_OneLogBeforeAnyUnit ==
    \A h \in HostIds :
        (args.logger_db_ok /\ ~args.dry_run /\ Terminated(h) /\ runs[h] = <<>>)
            => Len(logs[h]) = 1

\* the label, code and exit code of the i-th unit invocation of h
UnitLabel(h, i) == IF IsSql THEN results[h][i].database ELSE None
UnitCode(h, i) == IF IsSql THEN results[h][i].pg_code ELSE results[h][i].code
UnitExit(h, i) ==
    IF IsSql THEN results[h][i].exit_code ELSE results[h][i].result.exit_code

RowsMatchUnits(h) ==
    /\ Len(logs[h]) = Len(runs[h])
    /\ Len(results[h]) = Len(runs[h])
    /\ \A i \in 1..Len(logs[h]) :
        /\ logs[h][i].target_host = h
        /\ logs[h][i].database_name = UnitLabel(h, i)
        /\ logs[h][i].pg_code = UnitCode(h, i)
        /\ logs[h][i].exit_code = UnitExit(h, i)
    /\ (Returned(h) /\ IsSql) => Len(logs[h]) = Len(ret[h].results)

C9_NeverRaises ==
    \A h \in HostIds : pc[h] # "raised" /\ exc[h] = "none"

\* C10 as stated: in the sql variant, once a unit came back with ssh_99 no
\* later database of the host is invoked and the outcome does not carry the
\* transport success code.
C10_TransportFailureStopsLoop ==
    \A h \in HostIds :
        IsSql =>
            \A i \in 1..Len(results[h]) :
                results[h][i].pg_code = "ssh_99" =>
                    /\ Len(runs[h]) = i
                    /\ Returned(h) => ret[h].ssh_code # "ssh_0"

\* get_ssh_connection was called for h and gave no client
SessionOpenFailed(h) == ssh_code[h] # None /\ client[h] = "none"

\* a code of the transport-failure family: ssh_99, with or without the text
\* of the exception after it
TransportFailure(code) == Len(code) >= 6 /\ SubSeq(code, 1, 6) = "ssh_99"

\* the code of the outcome of h: ssh_code (sql) or cmd_code (shell)
OutcomeCode(h) == IF IsSql THEN ret[h].ssh_code ELSE ret[h].cmd_code

\* the report of h was printed, neither the pipeline nor the reporter raised
Reported(h) ==
    Consumed(h) /\ Returned(h) /\ printed[h] \notin {<<"ERROR">>, <<"exception">>}

ConfigFailed(h) ==
    /\ pc[h] \in {"finally", "returned", "raised"}
    /\ ssh_code[h] = None
    /\ IsSql \/ exc[h] = "ValueError"

\* C12 as stated: when the host descriptor cannot be resolved the pipeline
\* returns a failure outcome with the configuration-failure code (ssh_99),
\* and no session is opened, no discovery query is sent and no unit is run.
C12_ConfigFailureReturnsOutcome ==
    \A h \in HostIds :
        ConfigFailed(h) =>
            /\ exc[h] = "none"
            /\ pc[h] # "raised"
            /\ ~ret[h].success
            /\ OutcomeCode(h) = "ssh_99"
            /\ client[h] = "none"
            /\ ~discovered[h]
            /\ runs[h] = <<>>

\* C13: every session a pipeline opened has been closed when process_host
\* ends, whether it returned normally, returned a failure early or raised; a
\* session is open only while its pipeline is between the connection and the
\* finally block, and when main has ended no session is open.
C13_SessionsClosed ==
    /\ \A h \in HostIds :
        /\ Terminated(h) => client[h] # "open"
        /\ Terminated(h) => (client[h] = "none" <=> ssh_code[h] # "ssh_0")
        /\ client[h] = "open" =>
               /\ fut[h] = "running"
               /\ pc[h] \in {"resolve", "render", "loop", "run", "finally"}
    /\ MainEnded => \A h \in HostIds : client[h] # "open"

C13_Witness ==
    /\ mainPc = "done"
    /\ \E f, g \in HostSet :
        /\ pc[f] = "raised"
        /\ client[f] = "closed"
        /\ Returned(g)
        /\ ret[g].pg_code = "pg_99"
        /\ client[g] = "closed"

\* the finally block of h ends in this step
FinallyStep(h) == pc[h] = "finally" /\ pc'[h] # "finally"

\* C14: whatever client.close() does, the finally block completes
\* process_host with the return value or the exception that entered it; an
\* outcome whose close() raised is reported and counted as the same outcome
\* with a successful close would be, and the error of close() never reaches
\* the dispatcher.
C14_CloseFailureKeepsResult ==
    /\ [][\A h \in HostIds :
            FinallyStep(h) =>
                /\ ret'[h] = ret[h]
                /\ exc'[h] = exc[h]
                /\ pc'[h] = IF exc[h] = "none" THEN "returned" ELSE "raised"
                /\ fut'[h] = "done"]_vars
    /\ [](\A h \in HostIds :
            client[h] = "close_raised" =>
                /\ Terminated(h) => (Returned(h) <=> exc[h] = "none")
                /\ Reported(h) =>
                       /\ counted[h] = DueBuckets(h)
                       /\ printed[h] = IF IsSql THEN <<PrintPgResult(ret[h])>>
                                       ELSE <<PrintResult(ret[h])>>)

C14_Witness ==
    \E h \in HostIds :
        /\ client[h] = "close_raised"
        /\ Reported(h)
        /\ ret[h].success
        /\ counted[h] = <<"success">>
        /\ mainPc = "done"

\* the outcome of h is a full success
FullSuccess(h) == Returned(h) /\ ret[h].success

\* C15 as stated: when main has ended, the exit status of the process is
\* non-zero iff some dispatched host's outcome is not a full success, in both
\* variants; with no host dispatched it is zero.
C15_ExitCodeReflectsOutcomes ==
    MainEnded =>
        (exit_status # 0 <=> \E h \in HostSet : ~FullSuccess(h))

\* the codes the classifier of the sql runner gives to a failed unit
PgClassificationCodes == {"pg_10", "pg_12", "pg_14", "pg_16", "pg_18", "pg_99"}

C16_CodesCovered ==
    \A c \in PgClassificationCodes \ {"pg_99"} :
        \E resp \in PgExecAnswers : RunPostgresCommand(resp).code = c

ShStderrLines ==
    << "x: Permission denied",
       "foo: command not found",
       "x: No such file or directory",
       "Connection timeout",
       "sudo: a terminal is required",
       "cannot read the password" >>

\* lines of stderr, one for each text _parse_psql_error looks for
PgStderrLines ==
    << "sh: 1: psql: not found",
       "bash: psql: command not found",
       "psql: FATAL:  starting up",
       "password authentication failed",
       "could not connect to server",
       "No route to host",
       "syntax error at or near \"FORM\"",
       "ERROR:  relation \"t\" does not exist" >>

\* the exit statuses tried
ExitCodes == {0, 1, 127}

\* the stderr holding the lines of `lines` whose number is in `marks`
RECURSIVE StderrOf(_, _, _)
StderrOf(lines, marks, i) ==
    IF i > Len(lines) THEN ""
    ELSE (IF i \in marks THEN lines[i] \o "\n" ELSE "")
         \o StderrOf(lines, marks, i + 1)

\* a call of fn on the stderr marked `marks` and on exit_code, not yet made
Call(fn, lines, marks, exit_code) ==
    [fn |-> fn, marks |-> marks, stderr |-> StderrOf(lines, marks, 1),
     exit_code |-> exit_code, code |-> None]

\* what the remote psql wrote to stdout in the calls of the sql runner
PgStdouts == {"", "\n", "[]", "null", "[{\"a\": 1}]\n", "CREATE TABLE\n"}

\* the marks of PgStderrLines written to stderr in the calls of the sql runner
PgRunnerMarks == {{}, {1}, {7}, {3, 4}}

\* a call of run_postgres_command_over_ssh for database db_name on a remote
\* psql that writes out and the stderr marked `marks` and exits with
\* exit_code, not yet made
RunnerCall(db_name, out, marks, exit_code) ==
    [fn |-> "run_postgres_command_over_ssh", marks |-> marks,
     stderr |-> StderrOf(PgStderrLines, marks, 1), exit_code |-> exit_code,
     code |-> None, db_name |-> db_name, out |-> out, unit |-> <<>>]

InitClassify ==
    /\ args \in {a \in ArgSets : a.workers = 1 /\ a.row = NoRow /\ a.logger_db_ok
                                  /\ a.db = <<>> /\ a.db_exclude = <<>>
                                  /\ ~a.dry_run /\ ~a.verbose /\ a.variant = "shell"}
    /\ hosts = <<>>
    /\ environment = "sampled"
    /\ Idle
    /\ known_hosts = {}
    /\ connections = <<>>
    /\ \/ \E marks \in SUBSET (1..Len(ShStderrLines)), e \in ExitCodes :
            call = Call("run_ssh_command", ShStderrLines, marks, e)
       \/ \E marks \in SUBSET (1..Len(PgStderrLines)), e \in ExitCodes :
            call = Call("_parse_psql_error", PgStderrLines, marks, e)
       \/ \E db_name \in {"db1", "db2"}, out \in PgStdouts, marks \in PgRunnerMarks,
             e \in ExitCodes :
            call = RunnerCall(db_name, out, marks, e)

\* run_ssh_command on a remote process that wrote call.stderr and exited
\* with call.exit_code: the code attached to the unit
ClassifyShell ==
    /\ call.fn = "run_ssh_command"
    /\ call.code = None
    /\ call' = [call EXCEPT !.code =
           RunSshCommand(ExecDone("", call.stderr, call.exit_code), args.cmd).code]
    /\ UNCHANGED <<args, hosts, environment, answers, known_hosts, connections, mainVars,
                   fut, hostVars>>

\* _parse_psql_error(call.stderr, call.exit_code)
ClassifySql ==
    /\ call.fn = "_parse_psql_error"
    /\ call.code = None
    /\ call' = [call EXCEPT !.code = ParsePsqlError(call.stderr, call.exit_code)]
    /\ UNCHANGED <<args, hosts, environment, answers, known_hosts, connections, mainVars,
                   fut, hostVars>>

\* run_postgres_command_over_ssh on a remote psql that wrote call.out and
\* call.stderr and exited with call.exit_code, and the unit result
\* process_host makes of what it returned
RunSql ==
    /\ call.fn = "run_postgres_command_over_ssh"
    /\ call.code = None
    /\ LET run == RunPostgresCommand(ExecDone(call.out, call.stderr, call.exit_code))
       IN  call' = [call EXCEPT !.code = run.code,
                                !.unit = UnitResult(call.db_name, run.result, run.code)]
    /\ UNCHANGED <<args, hosts, environment, answers, known_hosts, connections, mainVars,
                   fut, hostVars>>

NextClassify == ClassifyShell \/ ClassifySql \/ RunSql

SpecClassify == InitClassify /\ [][NextClassify]_vars

\* the table of C17 over the marks of ShStderrLines, `last` being the code of
\* its last row
ShTable(marks, exit_code, last) ==
    IF 1 \in marks THEN "cmd_12"
    ELSE IF 2 \in marks \/ 3 \in marks THEN "cmd_10"
    ELSE IF 4 \in marks THEN "cmd_16"
    ELSE IF 5 \in marks /\ 6 \in marks THEN "cmd_12"
    ELSE IF exit_code # 0 THEN "cmd_18"
    ELSE last

ShellCalled == call.fn = "run_ssh_command" /\ call.code # None

\* C17 as stated: the code the shell runner attaches to a unit is the first
\* match of: permission denied -> cmd_12; not found, no such file -> cmd_10;
\* timeout -> cmd_16; sudo and password -> cmd_12; exit code # 0 -> cmd_18;
\* else cmd_0, for every combination of texts and exit code.
C17_ShellTable ==
    ShellCalled => call.code = ShTable(call.marks, call.exit_code, "cmd_0")

\* C17 amended: exit code 0 gives cmd_0 whatever stderr holds; for a
\* non-zero exit code the code is the first match of the table, whose last
\* row for such a unit is cmd_18.
C17_ShellTableOnFailure ==
    ShellCalled =>
        call.code = IF call.exit_code = 0 THEN "cmd_0"
                    ELSE ShTable(call.marks, call.exit_code, "cmd_18")

C17_Witness ==
    /\ ShellCalled
    /\ call.marks = {1, 2, 4, 5, 6}
    /\ call.exit_code = 0
    /\ call.code = "cmd_0"

\* the table of C18 over the marks of PgStderrLines
PgTable(marks, exit_code) ==
    IF 1 \in marks \/ 2 \in marks THEN "pg_10"
    ELSE IF 3 \in marks /\ 4 \in marks THEN "pg_12"
    ELSE IF 3 \in marks /\ (5 \in marks \/ 6 \in marks) THEN "pg_16"
    ELSE IF 7 \in marks \/ 8 \in marks THEN "pg_14"
    ELSE IF exit_code # 0 THEN "pg_18"
    ELSE "pg_99"

SqlCalled == call.fn = "_parse_psql_error" /\ call.code # None

\* C18: _parse_psql_error returns the code of the first matching rule of:
\* psql/command not found -> pg_10; fatal and password -> pg_12; fatal and
\* (could not connect or no route) -> pg_16; syntax error or error: -> pg_14;
\* exit code # 0 -> pg_18; it returns a code for every input (pg_99 when no
\* rule matches).
C18_SqlTable ==
    SqlCalled =>
        /\ call.code = PgTable(call.marks, call.exit_code)
        /\ call.code \in PgClassificationCodes

C18_Witness ==
    /\ SqlCalled
    /\ call.marks = {3, 4, 8}
    /\ call.code = "pg_12"

\* the scenario of C19: one host, databases [db1, db2], psql exits 0 for db1
\* and 1 with a syntax error on stderr for db2 (the stderr is read from the
\* log record of the unit), the report is printed and main has ended
C19_Scenario ==
    /\ IsSql
    /\ hosts = <<1>>
    /\ mainPc = "done"
    /\ Reported(1)
    /\ databases[1] = <<"db1", "db2">>
    /\ Len(results[1]) = 2
    /\ results[1][1].exit_code = 0
    /\ results[1][2].exit_code = 1
    /\ args.logger_db_ok
    /\ Len(logs[1]) = 2
    /\ Contains("syntax error", logs[1][2].stderr_text)

\* C19: in that scenario the outcome holds the unit results of db1 and db2 in
\* this order, db1 succeeded, db2 did not and has the code pg_14, the host is
\* reported PARTIAL and the tally is success 0, partial 1, fail 0.
C19_PartialOnSyntaxError ==
    C19_Scenario =>
        /\ Len(ret[1].results) = 2
        /\ ret[1].results[1].database = "db1"
        /\ ret[1].results[1].success
        /\ ret[1].results[1].pg_code = "pg_0"
        /\ ret[1].results[2].database = "db2"
        /\ ~ret[1].results[2].success
        /\ ret[1].results[2].pg_code = "pg_14"
        /\ ~ret[1].success
        /\ ret[1].ssh_code = "ssh_0"
        /\ printed[1] = <<"PARTIAL">>
        /\ success_count = 0
        /\ partial_count = 1
        /\ fail_count = 0

C19_Witness == C19_Scenario /\ discovered[1]

(***************************************************************************)
(* SpecHostKeys: get_ssh_connection with the host keys.  The behaviour of  *)
(* the paramiko calls it makes is the documented one: SSHClient() starts   *)
(* with no host key and no host-key file; load_system_host_keys() reads    *)
(* ~/.ssh/known_hosts and never writes it; connect() accepts a server      *)
(* whose key is among the loaded ones and asks the policy otherwise;       *)
(* RejectPolicy raises SSHException; AutoAddPolicy adds the key to the     *)
(* client's own keys and saves them to the file given to load_host_keys(), *)
(* if there is one.                                                        *)
(***************************************************************************)
\* client.connect() as get_ssh_connection prepares it: "ok" or the text of
\* the exception; `trusted` are the hosts whose key is in ~/.ssh/known_hosts
\* and resp is the answer of the network
Connect(hostname, allow_new_hosts, trusted, resp) ==
    LET system_host_keys == IF allow_new_hosts THEN {} ELSE trusted
        policy == IF allow_new_hosts THEN "AutoAddPolicy" ELSE "RejectPolicy"
    IN  IF resp # "ok" THEN resp
        ELSE IF hostname \in system_host_keys THEN "ok"
        ELSE IF policy = "AutoAddPolicy" THEN "ok"
        ELSE "Server not found in known_hosts"

\* ~/.ssh/known_hosts after the call: get_ssh_connection never calls
\* load_host_keys(), so AutoAddPolicy has no file to save the key to
KnownHostsAfter(hostname, allow_new_hosts, trusted, resp) == trusted

InitHostKeys ==
    /\ args \in {a \in ArgSets : a.workers = 1 /\ a.row = NoRow /\ a.logger_db_ok
                                  /\ a.db = <<>> /\ a.db_exclude = <<>>
                                  /\ ~a.dry_run /\ ~a.verbose /\ a.variant = "shell"}
    /\ hosts = <<>>
    /\ environment = "sampled"
    /\ Idle
    /\ call = NoCall
    /\ known_hosts \in SUBSET HostIds
    /\ connections = <<>>

\* one call of get_ssh_connection
GetSshConnectionCall ==
    /\ Len(connections) < MaxConnections
    /\ \E hostname \in HostIds, allow_new_hosts \in BOOLEAN, resp \in ConnectResponses :
        LET conn == GetSshConnection(Connect(hostname, allow_new_hosts,
                                             known_hosts, resp))
        IN  /\ connections' = Append(connections,
                   [hostname |-> hostname, allow_new_hosts |-> allow_new_hosts,
                    trusted |-> hostname \in known_hosts, resp |-> resp,
                    client |-> conn.client, code |-> conn.code])
            /\ known_hosts' = KnownHostsAfter(hostname, allow_new_hosts,
                                              known_hosts, resp)
    /\ UNCHANGED <<args, hosts, environment, call, answers, mainVars, fut, hostVars>>

NextHostKeys == GetSshConnectionCall

SpecHostKeys == InitHostKeys /\ [][NextHostKeys]_vars

\* C20 as stated: with allow_new_hosts = false a host whose key is not in
\* the trusted store gets no session and a transport-failure code; with
\* allow_new_hosts = true the session opens and the key of the host is then
\* in the trusted store, so that a later call for the same host with
\* allow_new_hosts = false, the host answering, opens a session.
C20_HostKeyPolicy ==
    \A j \in 1..Len(connections) :
        LET c == connections[j] IN
        /\ (~c.allow_new_hosts /\ ~c.trusted) =>
               c.client = "none" /\ TransportFailure(c.code)
        /\ (c.allow_new_hosts /\ c.resp = "ok") =>
               /\ c.client = "open"
               /\ c.code = "ssh_0"
               /\ c.hostname \in known_hosts
        /\ \A i \in 1..(j - 1) :
               ( /\ connections[i].hostname = c.hostname
                 /\ connections[i].allow_new_hosts
                 /\ connections[i].client = "open"
                 /\ ~c.allow_new_hosts
                 /\ c.resp = "ok" )
               => c.client = "open"

\* a pipeline is executing for h
Executing(h) == pc[h] \in ActivePcs

\* C21: main submits one pipeline invocation for every host of the list and
\* for no other; a pipeline starts only for a submitted host and never a
\* second time; at every moment the pipelines executing are the running
\* futures and they are at most args.workers; when main has ended every host
\* of the list has had its pipeline run.
C21_OnePipelinePerHostBounded ==
    /\ [](/\ args.workers >= 1
          /\ Cardinality({h \in HostIds : Executing(h)}) <= args.workers
          /\ {h \in HostIds : Executing(h)} = Running
          /\ \A h \in HostIds \ HostSet : fut[h] = "none" /\ pc[h] = "idle"
          /\ mainPc # "start" => \A h \in HostSet : fut[h] # "none"
          /\ MainEnded => \A h \in HostSet : Terminated(h))
    /\ [][\A h \in HostIds :
            /\ (pc[h] = "idle" /\ pc'[h] # "idle") =>
                   /\ h \in HostSet
                   /\ fut[h] = "pending"
                   /\ fut'[h] = "running"
                   /\ pc'[h] = "config"
            /\ pc[h] # "idle" => pc'[h] # "idle"
            /\ (fut[h] # "pending" /\ fut'[h] = "pending") =>
                   fut[h] = "none" /\ mainPc = "start"
            /\ fut[h] # "none" => fut'[h] # "none"]_vars

C21_Witness ==
    /\ Len(hosts) = 2
    /\ args.workers = 1
    /\ Cardinality(Running) = 1
    /\ \E h \in HostSet : FirstPending(h)
    /\ \E h \in HostSet : pc[h] = "loop"

\* the counters the outcome of a consumed host h stands for: they follow
\* from its result or exception and from what its report did
BucketsOf(h) ==
    LET raised == pc[h] = "raised"
        reporter_raises == ~raised /\ printed[h] \in {<<"ERROR">>, <<"exception">>}
    IN  IF IsSql THEN PgBuckets(raised, reporter_raises, ret[h])
        ELSE ShBuckets(raised, reporter_raises, ret[h])

\* how many consumed hosts' outcomes stand for counter b, times counted
Tally(b) ==
    Cardinality({x \in HostIds \X (1..2) :
                    /\ Consumed(x[1])
                    /\ x[2] <= Len(BucketsOf(x[1]))
                    /\ BucketsOf(x[1])[x[2]] = b})

\* the three counters
Counters == <<success_count, partial_count, fail_count>>

\* C22: the counters change only in a step of the main thread that consumes
\* one completed future, a step in which no pipeline moves; at every moment
\* they are the tally of the outcomes consumed so far, so the final summary
\* is the same for every completion order of the same outcomes.
C22_SingleAggregator ==
    /\ [](/\ success_count = Tally("success")
          /\ partial_count = Tally("partial")
          /\ fail_count = Tally("fail")
          /\ \A h \in HostIds : Consumed(h) => counted[h] = BucketsOf(h))
    /\ [][Counters' # Counters =>
            /\ mainPc = "collect"
            /\ mainPc' = "collect"
            /\ hostVars' = hostVars
            /\ \E h \in HostSet :
                /\ fut[h] = "done"
                /\ fut'[h] = "consumed"
                /\ \A g \in HostIds \ {h} : fut'[g] = fut[g] /\ counted'[g] = counted[g]]_vars

C22_Witness ==
    /\ mainPc = "done"
    /\ IsSql
    /\ args.workers = 2
    /\ fut[1] = "consumed"
    /\ fut[2] = "consumed"
    /\ Len(answers[1]) > Len(answers[2])
    /\ counted[1] = <<"partial">>
    /\ counted[2] = <<"fail">>
    /\ Counters = <<0, 1, 1>>

\* how many times the environment was asked `ask` for host h
Asked(h, ask) ==
    Cardinality({i \in 1..Len(answers[h]) : answers[h][i].ask = ask})

\* C23: for every host the configuration is looked up at most once, at most
\* one session open is attempted, the discovery query is sent at most once,
\* the runner is invoked at most once for each unit (each database of the
\* sql variant, the one command of the shell variant) and the future is
\* consumed at most once, whatever each attempt gave.
C23_NothingRetried ==
    \A h \in HostIds :
        /\ Asked(h, "config") <= 1
        /\ Asked(h, "connect") <= 1
        /\ Asked(h, "discovery") <= 1
        /\ Asked(h, "close") <= 1
        /\ Asked(h, "report") <= 1
        /\ Asked(h, "unit") = Len(runs[h])
        /\ \A i, j \in 1..Len(runs[h]) : runs[h][i] = runs[h][j] => i = j
        /\ ~IsSql => Len(runs[h]) <= 1
        /\ Asked(h, "config") = 0 <=> pc[h] \in {"idle", "config"}
        /\ (ssh_code[h] # None) <=> Asked(h, "connect") = 1

C23_Witness ==
    \E h \in HostIds :
        /\ IsSql
        /\ Terminated(h)
        /\ Asked(h, "connect") = 1
        /\ Len(runs[h]) = 2
        /\ results[h][1].pg_code = "ssh_99"
        /\ results[h][2].pg_code = "pg_18"
        /\ Asked(h, "unit") = 2

\* the failure family a log record belongs to, from what the pipeline was
\* doing when it wrote the record
HasPrefix(text, prefix) ==
    /\ Len(text) >= Len(prefix)
    /\ SubSeq(text, 1, Len(prefix)) = prefix

FamilyOf(rec) ==
    IF HasPrefix(rec.query_text, "CONFIG_ERROR: ")
           \/ HasPrefix(rec.query_text, "TEMPLATE_ERROR: ")
    THEN "configuration"
    ELSE IF HasPrefix(rec.query_text, "SSH_ERROR: ") \/ rec.exit_code = -1
    THEN "transport"
    ELSE IF HasPrefix(rec.query_text, "DB_LIST_ERROR: ")
    THEN "targets"
    ELSE "unit"

LogRecords == UNION {{logs[h][i] : i \in 1..Len(logs[h])} : h \in HostIds}

\* C24: two log records that carry the same code belong to the same failure
\* family: a configuration failure, a transport failure and an executed unit
\* never share a code.
C24_FamiliesDisjoint ==
    \A r1, r2 \in LogRecords :
        /\ FamilyOf(r1) \in {"configuration", "transport", "unit"}
        /\ FamilyOf(r2) \in {"configuration", "transport", "unit"}
        /\ r1.pg_code = r2.pg_code
        => FamilyOf(r1) = FamilyOf(r2)

RunnerCalled == call.fn = "run_postgres_command_over_ssh" /\ call.code # None

\* C25: when the remote psql exits with 0 and wrote no rows to stdout, the
\* unit result has data = [] (not None), code pg_0 and success, whatever the
\* database and whatever stderr holds.
C25_NoRowsIsEmptyList ==
    RunnerCalled /\ call.exit_code = 0 /\ call.out \in {"", "\n"}
    => /\ call.unit.data = EmptyList
       /\ call.unit.data # NoneData
       /\ call.code = "pg_0"
       /\ call.unit.pg_code = "pg_0"
       /\ call.unit.success
       /\ call.unit.database = call.db_name

C25_Witness ==
    /\ RunnerCalled
    /\ call.exit_code = 0
    /\ call.out = "\n"
    /\ call.marks = {7}
    /\ call.unit.data = EmptyList
    /\ call.unit.success

\* what the configuration store and the remote host answered to the
\* pipeline of host h, in order
PipelineAnswers(h) ==
    LET NotReport(a) == a.ask # "report" IN SelectSeq(answers[h], NotReport)

\* the HostOutcome of a terminated pipeline without the name of its host:
\* how it ended, the codes, the unit list and the success flags
HostOutcome(h) ==
    [ended |-> pc[h],
     exc |-> exc[h],
     value |-> IF Returned(h) THEN [ret[h] EXCEPT !.host = 0] ELSE <<>>,
     units |-> results[h],
     invoked |-> runs[h]]

\* the FleetSummary that follows from what was counted for each host
SummaryOf(b) ==
    Cardinality({x \in HostIds \X (1..2) :
                    x[2] <= Len(counted[x[1]]) /\ counted[x[1]][x[2]] = b})

C27_MainEndsNormally ==
    /\ mainPc # "crashed"
    /\ mainPc = "done" /\ ~IsSql /\ hosts # <<>>
       => exit_status = IF fail_count = 0 THEN 0 ELSE 1

\* C28: when every pipeline step that can be taken is eventually taken, main
\* ends.  Each future is consumed once and only after its pipeline has
\* terminated: a host is reported by one line, and the outcome of a pipeline
\* that returned is handed to the reporter once; main ends only after the
\* futures of all submitted hosts have been consumed and counted.
C28_DispatchTerminates ==
    /\ <>MainEnded
    /\ [](\A h \in HostIds :
            /\ Len(printed[h]) <= 1
            /\ Consumed(h) <=> Len(printed[h]) = 1
            /\ Consumed(h) => Terminated(h) /\ counted[h] # <<>>
            /\ Asked(h, "report") = (IF Consumed(h) /\ Returned(h) THEN 1 ELSE 0)
            /\ MainEnded /\ h \in HostSet => Consumed(h))
    /\ [][\A h \in HostIds :
            /\ Consumed(h) => fut'[h] = fut[h] /\ printed'[h] = printed[h]
                              /\ counted'[h] = counted[h]
            /\ fut'[h] = "consumed" /\ ~Consumed(h) => fut[h] = "done"]_vars

C28_Witness ==
    /\ mainPc = "done"
    /\ Len(hosts) = 2
    /\ args.workers = 2
    /\ \A h \in HostSet : Consumed(h) /\ Len(printed[h]) = 1
    /\ pc[1] = "raised" /\ Asked(1, "report") = 0
    /\ pc[2] = "returned" /\ Asked(2, "report") = 1
    /\ fail_count >= 2

\* the names of the exclusion set
Excluded == {args.db_exclude[i] : i \in 1..Len(args.db_exclude)}

\* the targets of host h are resolved
TargetsResolved(h) ==
    /\ IsSql
    /\ \/ Asked(h, "discovery") = 1 /\ exc[h] = "none"
       \/ args.db # <<>> /\ ssh_code[h] = "ssh_0" /\ pc[h] # "resolve"

\* the list the targets of host h are taken from
TargetSource(h) ==
    IF args.db # <<>> THEN args.db
    ELSE LET Discovery(a) == a.ask = "discovery"
         IN  GetUserDatabases(SelectSeq(answers[h], Discovery)[1].resp).dbs

\* C29: with an explicit database list the discovery query is not run and
\* the targets are taken from that list, else from the discovered list; the
\* targets are the names of that list that are not excluded, in the order of
\* the list; the runner is invoked for the targets in that order, and no
\* invocation and no unit result names an excluded database.
C29_TargetResolution ==
    IsSql => \A h \in HostIds :
        /\ args.db # <<>> => ~discovered[h] /\ Asked(h, "discovery") = 0
        /\ TargetsResolved(h) =>
              LET NotExcluded(db) == db \notin Excluded
              IN  databases[h] = SelectSeq(TargetSource(h), NotExcluded)
        /\ Len(runs[h]) <= Len(databases[h])
        /\ \A i \in 1..Len(runs[h]) :
              runs[h][i] = databases[h][i] /\ runs[h][i] \notin Excluded
        /\ \A i \in 1..Len(results[h]) :
              results[h][i].database = databases[h][i]
              /\ results[h][i].database \notin Excluded

C29_Witness ==
    \E h \in HostIds :
        /\ args.db = <<>>
        /\ args.db_exclude = <<"db2">>
        /\ discovered[h]
        /\ TargetSource(h) = <<"db1", "db2">>
        /\ databases[h] = <<"db1">>
        /\ Returned(h)
        /\ runs[h] = <<"db1">>
        /\ Len(ret[h].results) = 1

\* the pipeline of host h performs step s
Step(h, s) == pc[h] = s /\ pc'[h] # s

\* the configuration of host h was found
ConfigResolved(h) ==
    \E i \in 1..Len(answers[h]) : answers[h][i].ask = "config" /\ answers[h][i].resp

\* the template of the run renders
RenderOk == IF IsSql THEN RenderedSql.raised = "none" ELSE RenderedCommand.raised = "none"

\* steps other than rendering: the session is opened after the
\* configuration was resolved, the targets are resolved on the open session,
\* a unit is executed on the open session after the template rendered, a
\* failed step ends the pipeline, and an ended pipeline does nothing but
\* close its session
OtherStepsInOrder(h) ==
    /\ Step(h, "connect") => ConfigResolved(h) /\ client[h] = "none"
    /\ Step(h, "resolve") => ConfigResolved(h) /\ client[h] = "open"
    /\ runs'[h] # runs[h] =>
          /\ pc[h] \in {"loop", "run"}
          /\ ConfigResolved(h)
          /\ client[h] = "open"
          /\ RenderOk
          /\ IsSql => TargetsResolved(h)
    /\ Step(h, "config") /\ ~ConfigResolved(h)' => pc'[h] = "finally"
    /\ Step(h, "connect") /\ ssh_code'[h] # "ssh_0" => pc'[h] = "finally"
    /\ Step(h, "resolve") /\ (exc'[h] # "none" \/ databases'[h] = <<>>)
          => pc'[h] = "finally"
    /\ Step(h, "render") /\ ~RenderOk => pc'[h] = "finally"
    /\ pc[h] \in {"finally", "returned", "raised"} =>
          /\ pc'[h] \in {"finally", "returned", "raised"}
          /\ runs'[h] = runs[h]
          /\ results'[h] = results[h]
          /\ databases'[h] = databases[h]
          /\ ssh_code'[h] = ssh_code[h]
          /\ Asked(h, "connect")' = Asked(h, "connect")
          /\ Asked(h, "discovery")' = Asked(h, "discovery")
    /\ Returned(h)' /\ IsSql /\ ret'[h].ssh_code = "ssh_0" /\ ret'[h].pg_code = None
          => Len(ret'[h].results) = Len(databases[h]) /\ Len(runs[h]) = Len(databases[h])

\* C30 as stated: in both variants the steps of a pipeline occur in the
\* order configuration, session, targets, rendering, units, outcome: the
\* template is rendered on an open session, no unit runs before the
\* template rendered, and a failed step ends the pipeline.
C30_StepOrder ==
    [][\A h \in HostIds :
          /\ OtherStepsInOrder(h)
          /\ Step(h, "render") =>
                /\ ConfigResolved(h)
                /\ client[h] = "open"
                /\ IsSql => TargetsResolved(h) /\ databases[h] # <<>>]_vars

\* C30 amended: the sql variant keeps the order of the claim; the shell
\* variant renders the template right after the configuration is resolved,
\* before any session is opened, opens the session only when the template
\* rendered and the run is not a dry run, and then executes its unit.
C30_StepOrderByVariant ==
    [][\A h \in HostIds :
          /\ OtherStepsInOrder(h)
          /\ Step(h, "render") =>
                /\ ConfigResolved(h)
                /\ IF IsSql
                   THEN client[h] = "open" /\ TargetsResolved(h) /\ databases[h] # <<>>
                   ELSE client[h] = "none" /\ Asked(h, "connect") = 0
          /\ Step(h, "connect") /\ ~IsSql => RenderOk /\ ~args.dry_run]_vars

C30_Witness ==
    \E h \in HostIds :
        /\ ~IsSql
        /\ args.dry_run
        /\ Returned(h)
        /\ ConfigResolved(h)
        /\ ret[h].success
        /\ ret[h].cmd_code = "cmd_0"
        /\ Asked(h, "connect") = 0
        /\ runs[h] = <<>>

\* the pipeline of host h got as far as the template and the template was
\* missing or did not render
RenderFailed(h) ==
    /\ ~RenderOk
    /\ Terminated(h)
    /\ IF IsSql THEN TargetsResolved(h) /\ databases[h] # <<>>
       ELSE ConfigResolved(h)

\* C31: a pipeline whose template is missing or does not render has
\* returned a failure outcome, has logged it, and has executed no remote
\* command on its host: no unit and no discovery query.
C31_RenderFailureBeforeRemote ==
    \A h \in HostIds :
        RenderFailed(h) =>
            /\ Returned(h)
            /\ ~ret[h].success
            /\ \E i \in 1..Len(logs[h]) :
                  HasPrefix(logs[h][i].query_text, "TEMPLATE_ERROR: ")
            /\ runs[h] = <<>>
            /\ Asked(h, "discovery") = 0

(***************************************************************************)
(* The runners and their classifiers called on their own, exec_command    *)
(* raising included.                                                       *)
(***************************************************************************)
\* the four functions
RunnerFns == {"run_ssh_command", "run_postgres_command_over_ssh"}
ClassifierFns == {"_classify_ssh_error", "_parse_psql_error"}

\* the lines of stderr the function fn looks for
StderrLinesOf(fn) ==
    IF fn \in {"run_ssh_command", "_classify_ssh_error"} THEN ShStderrLines
    ELSE PgStderrLines

\* a call of fn not yet made: exec_command raises (runners only), or the
\* remote process writes the stderr marked `marks` and exits with exit_code
FnCall(fn, raises, marks, exit_code) ==
    [fn |-> fn, raises |-> raises, marks |-> marks,
     stderr |-> StderrOf(StderrLinesOf(fn), marks, 1),
     exit_code |-> exit_code, code |-> None]

InitRunner ==
    /\ args \in {a \in ArgSets : a.workers = 1 /\ a.row = NoRow /\ a.logger_db_ok
                                  /\ a.db = <<>> /\ a.db_exclude = <<>>
                                  /\ ~a.dry_run /\ ~a.verbose /\ a.variant = "shell"}
    /\ hosts = <<>>
    /\ environment = "sampled"
    /\ Idle
    /\ known_hosts = {}
    /\ connections = <<>>
    /\ \/ \E fn \in RunnerFns \cup ClassifierFns :
            \E marks \in SUBSET (1..Len(StderrLinesOf(fn))), e \in ExitCodes :
                call = FnCall(fn, FALSE, marks, e)
       \/ \E fn \in RunnerFns : call = FnCall(fn, TRUE, {}, NoExit)

\* what exec_command gave in the call
CallResp ==
    IF call.raises THEN ExecRaised ELSE ExecDone("", call.stderr, call.exit_code)

\* the call returns its code
CallRunSsh ==
    /\ call.fn = "run_ssh_command"
    /\ call.code = None
    /\ call' = [call EXCEPT !.code = RunSshCommand(CallResp, args.cmd).code]
    /\ UNCHANGED <<args, hosts, environment, answers, known_hosts, connections, mainVars,
                   fut, hostVars>>

CallClassifySsh ==
    /\ call.fn = "_classify_ssh_error"
    /\ call.code = None
    /\ call' = [call EXCEPT !.code = ClassifySshError(call.stderr, call.exit_code)]
    /\ UNCHANGED <<args, hosts, environment, answers, known_hosts, connections, mainVars,
                   fut, hostVars>>

CallRunPg ==
    /\ call.fn = "run_postgres_command_over_ssh"
    /\ call.code = None
    /\ call' = [call EXCEPT !.code = RunPostgresCommand(CallResp).code]
    /\ UNCHANGED <<args, hosts, environment, answers, known_hosts, connections, mainVars,
                   fut, hostVars>>

CallParsePsql ==
    /\ call.fn = "_parse_psql_error"
    /\ call.code = None
    /\ call' = [call EXCEPT !.code = ParsePsqlError(call.stderr, call.exit_code)]
    /\ UNCHANGED <<args, hosts, environment, answers, known_hosts, connections, mainVars,
                   fut, hostVars>>

NextRunner == CallRunSsh \/ CallClassifySsh \/ CallRunPg \/ CallParsePsql

SpecRunner == InitRunner /\ [][NextRunner]_vars

\* the codes of the kind of the function called
SuccessCode == IF call.fn \in {"run_ssh_command", "_classify_ssh_error"}
               THEN "cmd_0" ELSE "pg_0"
GenericCode == IF call.fn \in {"run_ssh_command", "_classify_ssh_error"}
               THEN "cmd_18" ELSE "pg_18"
UnknownCode == IF call.fn \in {"run_ssh_command", "_classify_ssh_error"}
               THEN "cmd_99" ELSE "pg_99"

\* C32: a runner returns the success code of its kind exactly when
\* exec_command did not raise and the exit code is 0, and never the Unknown
\* code; a classifier never returns the success code, returns
\* GenericFailure for a non-zero exit code with no text it looks for and
\* Unknown for exit code 0 with no such text.
C32_SuccessOnlyOnZeroExit ==
    call.code # None =>
        /\ call.fn \in RunnerFns =>
              /\ call.code = SuccessCode <=> ~call.raises /\ call.exit_code = 0
              /\ call.code # UnknownCode
              /\ call.raises => call.code = "ssh_99"
        /\ call.fn \in ClassifierFns => call.code # SuccessCode
        /\ ~call.raises /\ call.marks = {} /\ call.exit_code # 0
              => call.code = GenericCode
        /\ call.fn \in ClassifierFns /\ call.marks = {} /\ call.exit_code = 0
              => call.code = UnknownCode /\ UnknownCode # SuccessCode

C32_Witness ==
    /\ call.fn = "_classify_ssh_error"
    /\ call.marks = {}
    /\ call.exit_code = 0
    /\ call.code = "cmd_99"

\* C33: in a dry run of the shell variant no session open is attempted, no
\* remote command is executed and no log record is written for any host; a
\* pipeline whose configuration was resolved and whose command rendered
\* returns the initial outcome with success = TRUE, code cmd_0 and the
\* rendered command as stdout, and nothing else changed.
C33_DryRunFrame ==
    ~IsSql /\ args.dry_run =>
        \A h \in HostIds :
            /\ Asked(h, "connect") = 0
            /\ Asked(h, "unit") = 0
            /\ Asked(h, "close") = 0
            /\ client[h] = "none"
            /\ ssh_code[h] = None
            /\ runs[h] = <<>>
            /\ results[h] = <<>>
            /\ logs[h] = <<>>
            /\ pc[h] \notin {"connect", "run"}
            /\ Terminated(h) /\ ConfigResolved(h) /\ RenderOk =>
                  /\ Returned(h)
                  /\ ret[h] = [ShInitial(h) EXCEPT
                                  !.success = TRUE,
                                  !.cmd_code = "cmd_0",
                                  !.stdout = "[DRY-RUN] " \o RenderedCommand.text]
            /\ Returned(h) => ConfigResolved(h) /\ RenderOk /\ ret[h].success

C33_Witness ==
    /\ ~IsSql
    /\ args.dry_run
    /\ mainPc = "done"
    /\ Returned(1)
    /\ ret[1].success
    /\ ret[1].cmd_code = "cmd_0"
    /\ logs[1] = <<>>
    /\ Asked(1, "connect") = 0
    /\ Consumed(1)
    /\ exit_status = 0

(***************************************************************************)
(* log_execution called by the worker threads on one SQLite log store.    *)
(* `call` holds the store and the position of every worker in its call:   *)
(*   tasks, results  the committed rows of execution_tasks and             *)
(*                   execution_results, in rowid order;                    *)
(*   lock            the worker whose connection holds the write lock of   *)
(*                   the database file, 0 when it is free;                 *)
(*   at, n           where each worker is in its n-th call;                *)
(*   lastrowid       cursor.lastrowid of the worker's connection;          *)
(*   task, result    the rows the open transaction of the worker has       *)
(*                   inserted and not yet committed.                       *)
(* Every row carries in `by` the call that inserted it.                    *)
(***************************************************************************)
NoWorker == 0

LogAt(w, s) == [call EXCEPT !.at[w] = s]

\* the connection is dropped without a commit: SQLite rolls its
\* transaction back and frees the lock it held
RolledBack(c, w) ==
    [c EXCEPT !.task[w] = <<>>, !.result[w] = <<>>,
              !.lock = IF c.lock = w THEN NoWorker ELSE c.lock]

InitLog ==
    /\ args \in {a \in ArgSets : a.workers = 1 /\ a.row = NoRow /\ a.logger_db_ok
                                  /\ a.db = <<>> /\ a.db_exclude = <<>>
                                  /\ ~a.dry_run /\ ~a.verbose /\ a.variant = "shell"}
    /\ hosts = <<>>
    /\ environment = "sampled"
    /\ Idle
    /\ known_hosts = {}
    /\ connections = <<>>
    /\ call = [tasks |-> <<>>, results |-> <<>>, lock |-> NoWorker,
               at |-> [w \in HostIds |-> "idle"],
               n |-> [w \in HostIds |-> 1],
               lastrowid |-> [w \in HostIds |-> 0],
               task |-> [w \in HostIds |-> <<>>],
               result |-> [w \in HostIds |-> <<>>]]

LogFrame ==
    UNCHANGED <<args, hosts, environment, answers, known_hosts, connections, mainVars,
                fut, hostVars>>

\* conn, conn_code = get_sqlite_connection(path); return when conn is None
LogConnect(w) ==
    /\ call.at[w] = "idle"
    /\ \E ok \in BOOLEAN :
        call' = LogAt(w, IF ok THEN "connected" ELSE "returned")
    /\ LogFrame

\* INSERT committing its row at once, no transaction being open
LogInsertTaskAutocommit(w) ==
    /\ call.at[w] = "connected"
    /\ \E ok \in BOOLEAN :
        IF ok
        THEN LET id == Len(call.tasks) + 1 IN
             call' = [call EXCEPT
                         !.at[w] = "task",
                         !.lastrowid[w] = id,
                         !.tasks = Append(@, [id |-> id, by |-> <<w, call.n[w]>>])]
        ELSE call' = LogAt(w, "raising")
    /\ LogFrame

\* INSERT INTO execution_tasks: the statement opens the transaction of the
\* connection and takes the write lock; task_id = cursor.lastrowid.  It
\* raises when another connection keeps the lock longer than the busy
\* timeout, or for any other error of the database.
LogInsertTask(w) ==
    /\ call.at[w] = "connected"
    /\ \E ok \in BOOLEAN :
        IF ok /\ call.lock = NoWorker
        THEN LET id == Len(call.tasks) + 1 IN
             call' = [call EXCEPT
                         !.at[w] = "task",
                         !.lock = w,
                         !.lastrowid[w] = id,
                         !.task[w] = <<[id |-> id, by |-> <<w, call.n[w]>>]>>]
        ELSE call' = LogAt(w, "raising")
    /\ LogFrame

\* json.dumps of the result and INSERT INTO execution_results with the
\* task_id of this call; either may raise
LogInsertResult(w) ==
    /\ call.at[w] = "task"
    /\ \E ok \in BOOLEAN :
        IF ok
        THEN LET id == Len(call.results) + 1 IN
             call' = [call EXCEPT
                         !.at[w] = "result",
                         !.result[w] = <<[id |-> id,
                                          task_id |-> call.lastrowid[w],
                                          by |-> <<w, call.n[w]>>]>>]
        ELSE call' = LogAt(w, "raising")
    /\ LogFrame

\* conn.commit(); conn.close()
LogCommit(w) ==
    /\ call.at[w] = "result"
    /\ \E ok \in BOOLEAN :
        IF ok
        THEN call' = [RolledBack([call EXCEPT !.tasks = @ \o call.task[w],
                                              !.results = @ \o call.result[w]], w)
                         EXCEPT !.at[w] = "returned"]
        ELSE call' = LogAt(w, "raising")
    /\ LogFrame

\* the exception leaves log_execution; the connection, never closed, is
\* dropped at some later moment
LogDiscard(w) ==
    /\ call.at[w] = "raising"
    /\ call' = [RolledBack(call, w) EXCEPT !.at[w] = "raised"]
    /\ LogFrame

\* the worker goes on to its next log_execution call
LogAgain(w) ==
    /\ call.at[w] \in {"returned", "raised"}
    /\ call.n[w] < MaxLogCalls
    /\ call' = [call EXCEPT !.at[w] = "idle", !.n[w] = @ + 1, !.lastrowid[w] = 0]
    /\ LogFrame

NextLog ==
    \E w \in HostIds :
        \/ LogConnect(w)
        \/ LogInsertTask(w)
        \/ LogInsertResult(w)
        \/ LogCommit(w)
        \/ LogDiscard(w)
        \/ LogAgain(w)

SpecLog == InitLog /\ [][NextLog]_vars

IsPrefix(s, t) == Len(s) <= Len(t) /\ SubSeq(t, 1, Len(s)) = s

\* C34: the committed rows of the log store come in pairs: the i-th task
\* row and the i-th result row were inserted by the same call and the
\* result row references that task row, so no task is without its result
\* and no result is linked to another call's task; a call commits its pair
\* or nothing; the committed rows are never changed or removed, the tables
\* only grow at their end, by one pair at a time.
C34_LogPairsAtomic ==
    /\ [](/\ Len(call.tasks) = Len(call.results)
          /\ \A i \in 1..Len(call.tasks) :
                /\ call.tasks[i].id = i
                /\ call.results[i].task_id = call.tasks[i].id
                /\ call.results[i].by = call.tasks[i].by
          /\ \A i, j \in 1..Len(call.tasks) :
                call.tasks[i].by = call.tasks[j].by => i = j
          /\ \A w \in HostIds :
                call.at[w] = "raised" =>
                    \A i \in 1..Len(call.tasks) : call.tasks[i].by # <<w, call.n[w]>>)
    /\ [][/\ IsPrefix(call.tasks, call'.tasks)
          /\ IsPrefix(call.results, call'.results)
          /\ Len(call'.tasks) <= Len(call.tasks) + 1]_vars

C34_Witness ==
    /\ Len(call.tasks) = 3
    /\ call.tasks[1].by = <<2, 1>>
    /\ call.tasks[2].by = <<1, 1>>
    /\ call.tasks[3].by = <<2, 2>>
    /\ call.at[1] = "raised"
    /\ call.n[1] = 2
    /\ call.results[3].task_id = 3

====
